---- MODULE Spec2Model ----
(***************************************************************************)
(* Elden Ring save-file tracker: BinaryParser (binaryParser.js),           *)
(* DataLoader (dataLoader.js), TrackerCore (tracker.js), UI (ui.js) and    *)
(* the EldenRingTracker controller (main.js).                              *)
(*                                                                         *)
(* Representation.                                                         *)
(*  - A byte is a number 0..255.  A JS string is a sequence of one-        *)
(*    character strings (identifiers, catalog keys, display names) and a   *)
(*    decoded character name is a sequence of code points.                 *)
(*  - An ArrayBuffer is [len, data]: len is byteLength and data maps the   *)
(*    offsets that were written explicitly to their byte; every other      *)
(*    offset below len holds 0.  A save file is 26 MB, so the buffer is    *)
(*    kept sparse; the offsets are the ones of the source.                 *)
(*  - A Uint8Array view is [buf, off, len] (buffer, byteOffset,            *)
(*    byteLength).                                                         *)
(*  - A string the code only compares as a whole (a status, a category,    *)
(*    a message) is a TLA+ string.                                         *)
(*  - undefined, where a byte is expected, is Undefined; JS null, where an *)
(*    index is expected, is NotFound.                                      *)
(***************************************************************************)
EXTENDS Integers, Sequences, FiniteSets, TLC

Undefined == -1
NotFound == -2

Min(a, b) == IF a < b THEN a ELSE b
Max(a, b) == IF a > b THEN a ELSE b

SetMin(S) == CHOOSE x \in S : \A y \in S : x <= y

Range(s) == { s[i] : i \in 1..Len(s) }

Reverse(s) == [ i \in 1..Len(s) |-> s[Len(s) + 1 - i] ]

RECURSIVE Repeat(_, _)
Repeat(b, n) == IF n <= 0 THEN << >> ELSE <<b>> \o Repeat(b, n - 1)

RECURSIVE Concat(_)
Concat(ss) == IF ss = << >> THEN << >> ELSE Head(ss) \o Concat(Tail(ss))

(***************************************************************************)
(* ArrayBuffer and typed-array primitives                                  *)
(***************************************************************************)

\* the byte of buffer f at offset o (o < f.len)
ByteAt(f, o) == IF o \in DOMAIN f.data THEN f.data[o] ELSE 0

\* ArrayBuffer.prototype.slice(begin, end): a copy, both ends clamped
BufferSlice(f, begin, end) ==
    LET b == Min(begin, f.len)
        e == Min(end, f.len)
    IN  [ i \in 1..Max(e - b, 0) |-> ByteAt(f, b + i - 1) ]

\* new Uint8Array(arrayBuffer)
Uint8View(f) == [buf |-> f, off |-> 0, len |-> f.len]

\* TypedArray.prototype.subarray(begin, end): a view, both ends clamped
Subarray(v, begin, end) ==
    LET b == Min(Max(begin, 0), v.len)
        e == Min(Max(end, 0), v.len)
    IN  [buf |-> v.buf, off |-> v.off + b, len |-> Max(e - b, 0)]

\* v[i]: undefined outside the view
ViewAt(v, i) == IF i >= 0 /\ i < v.len THEN ByteAt(v.buf, v.off + i) ELSE Undefined

\* Array.from(view)
ArrayFrom(v) == [ i \in 1..v.len |-> ViewAt(v, i - 1) ]

\* conversion of a byte to an Int8Array element
ToInt8(b) == IF b >= 128 THEN b - 256 ELSE b

(***************************************************************************)
(* BinaryParser constants (constructor)                                    *)
(***************************************************************************)

PATTERN_NORMAL == << \hB0, \hAD, \h01, \h00, \h01, \hFF, \hFF, \hFF >>
PATTERN_DLC == << \hB0, \hAD, \h01, \h00, \h01 >>
FILE_SIGNATURE == << 66, 78, 68, 52 >>

\* getSlots: the ten (begin, end) pairs handed to subarray
SlotBegin == << \h00000310, \h00280320, \h00500330, \h00780340, \h00a00350,
                \h00c80360, \h00f00370, \h01180380, \h01400390, \h016803a0 >>
SlotEnd == << \h0028030f + 1, \h0050031f + 1, \h0078032f + 1, \h00a0033f + 1,
              \h00c8034f + 1, \h00f0035f + 1, \h0118036f + 1, \h0140037f + 1,
              \h0168038f + 1, \h0190039f + 1 >>

\* getCharacterNames: the ten name offsets
NameOffsets == << \h1901d0e, \h1901f5a, \h19021a6, \h19023f2, \h190263e,
                  \h190288a, \h1902ad6, \h1902d22, \h1902f6e, \h19031ba >>

SlotIndices == 0..(Len(SlotBegin) - 1)

(***************************************************************************)
(* BinaryParser methods                                                    *)
(***************************************************************************)

\* bufferEqual(buf1, buf2) on two byte sequences
bufferEqual(buf1, buf2) ==
    IF Len(buf1) # Len(buf2) THEN FALSE
    ELSE \A i \in 1..Len(buf1) : ToInt8(buf1[i]) = ToInt8(buf2[i])

\* validateFile comparing only the first three bytes of the signature
validateFile_threeBytes(fileData) ==
    bufferEqual(BufferSlice(fileData, 0, 3), SubSeq(FILE_SIGNATURE, 1, 3))

\* validateFile(fileData)
validateFile(fileData) ==
    LET signature == BufferSlice(fileData, 0, 4)
    IN  bufferEqual(signature, FILE_SIGNATURE)

\* the test of findPattern's loop body at index i
PatternAt(buffer, pattern, i) ==
    /\ ViewAt(buffer, i) = pattern[1]
    /\ bufferEqual(ArrayFrom(Subarray(buffer, i, i + Len(pattern))), pattern)

\* The indices of a view at which a scan can stop first: index 0, the
\* explicitly written offsets, and the offsets right after them.  Elsewhere
\* the byte and its predecessor are both 0, so a pattern that starts with a
\* non-zero byte does not match there, and an all-zero pattern that matches
\* there also matches one index earlier.
ScanPositions(buffer) ==
    { i \in {0} \cup { o - buffer.off : o \in DOMAIN buffer.buf.data }
                \cup { o - buffer.off + 1 : o \in DOMAIN buffer.buf.data } :
        i >= 0 /\ i < buffer.len }

\* findPattern(buffer, pattern): the lowest matching index, or null
findPattern(buffer, pattern) ==
    LET hits == { i \in ScanPositions(buffer) : PatternAt(buffer, pattern, i) }
    IN  IF hits = {} THEN NotFound ELSE SetMin(hits)

\* getSlots(fileData)[slotIndex]
getSlots(savesArray, slotIndex) ==
    Subarray(savesArray, SlotBegin[slotIndex + 1], SlotEnd[slotIndex + 1])

EndPatternLen == 50
EndPattern == Repeat(0, EndPatternLen)

NullView == [buf |-> [len |-> 0, data |-> << >>], off |-> 0, len |-> -1]

\* getInventory trying the expansion marker first
getInventory_dlcFirst(slot, isDlcFile) ==
    LET n == findPattern(slot, PATTERN_NORMAL)
        d == findPattern(slot, PATTERN_DLC)
        found == n # NotFound \/ d # NotFound
        index == IF d # NotFound THEN d + Len(PATTERN_DLC) + 3
                 ELSE n + Len(PATTERN_NORMAL) + 8
        flag == IF d # NotFound THEN TRUE ELSE FALSE
        endIndex == findPattern(Subarray(slot, index, slot.len), EndPattern)
    IN  IF ~found THEN [inv |-> NullView, isDlcFile |-> isDlcFile]
        ELSE IF endIndex = NotFound THEN [inv |-> NullView, isDlcFile |-> flag]
        ELSE [inv |-> Subarray(slot, index, index + endIndex + 6), isDlcFile |-> flag]

\* getInventory(slot): the returned view (NullView for null) and the value
\* this.isDlcFile has when it returns
getInventory(slot, isDlcFile) ==
    LET n == findPattern(slot, PATTERN_NORMAL)
        d == findPattern(slot, PATTERN_DLC)
        found == n # NotFound \/ d # NotFound
        index == IF n # NotFound THEN n + Len(PATTERN_NORMAL) + 8
                 ELSE d + Len(PATTERN_DLC) + 3
        flag == IF n # NotFound THEN FALSE ELSE TRUE
        endIndex == findPattern(Subarray(slot, index, slot.len), EndPattern)
    IN  IF ~found THEN [inv |-> NullView, isDlcFile |-> isDlcFile]
        ELSE IF endIndex = NotFound THEN [inv |-> NullView, isDlcFile |-> flag]
        ELSE [inv |-> Subarray(slot, index, index + endIndex + 6), isDlcFile |-> flag]

\* splitIntoChunks(array, chunkSize)
RECURSIVE splitIntoChunks(_, _)
splitIntoChunks(array, chunkSize) ==
    IF Len(array) = 0 THEN << >>
    ELSE <<SubSeq(array, 1, Min(chunkSize, Len(array)))>>
         \o splitIntoChunks(SubSeq(array, chunkSize + 1, Len(array)), chunkSize)

HexDigits == << "0", "1", "2", "3", "4", "5", "6", "7",
                "8", "9", "a", "b", "c", "d", "e", "f" >>

UpperHexDigits == << "0", "1", "2", "3", "4", "5", "6", "7",
                     "8", "9", "A", "B", "C", "D", "E", "F" >>

\* Number(decimal).toString(16)
RECURSIVE NumberToString16(_)
NumberToString16(decimal) ==
    IF decimal = Undefined THEN << "N", "a", "N" >>
    ELSE IF decimal < 16 THEN << HexDigits[decimal + 1] >>
    ELSE NumberToString16(decimal \div 16) \o << HexDigits[(decimal % 16) + 1] >>

\* decimalToHex(decimal, padding)
RECURSIVE PadLeft(_, _)
PadLeft(hex, padding) ==
    IF Len(hex) < padding THEN PadLeft(<<"0">> \o hex, padding) ELSE hex

decimalToHex(decimal, padding) == PadLeft(NumberToString16(decimal), padding)

LowerCase == << "a", "b", "c", "d", "e", "f", "g", "h", "i", "j", "k", "l", "m",
                "n", "o", "p", "q", "r", "s", "t", "u", "v", "w", "x", "y", "z" >>
UpperCase == << "A", "B", "C", "D", "E", "F", "G", "H", "I", "J", "K", "L", "M",
                "N", "O", "P", "Q", "R", "S", "T", "U", "V", "W", "X", "Y", "Z" >>

\* String.prototype.toUpperCase / toLowerCase on the characters modelled
toUpperCase(s) ==
    [ i \in 1..Len(s) |->
        IF \E k \in 1..26 : LowerCase[k] = s[i]
        THEN UpperCase[CHOOSE k \in 1..26 : LowerCase[k] = s[i]] ELSE s[i] ]

toLowerCase(s) ==
    [ i \in 1..Len(s) |->
        IF \E k \in 1..26 : UpperCase[k] = s[i]
        THEN LowerCase[CHOOSE k \in 1..26 : UpperCase[k] = s[i]] ELSE s[i] ]

\* convertIdToHex without the byte-order reversal
convertIdToHex_noReverse(idBytes) ==
    LET first == SubSeq(idBytes, 1, Min(4, Len(idBytes)))
        at(i) == IF i <= Len(first) THEN first[i] ELSE Undefined
    IN  toUpperCase(decimalToHex(at(1), 2) \o decimalToHex(at(2), 2)
                    \o decimalToHex(at(3), 2) \o decimalToHex(at(4), 2))

\* convertIdToHex(idBytes)
convertIdToHex(idBytes) ==
    LET reversed == Reverse(SubSeq(idBytes, 1, Min(4, Len(idBytes))))
        at(i) == IF i <= Len(reversed) THEN reversed[i] ELSE Undefined
        hexId == decimalToHex(at(1), 2) \o decimalToHex(at(2), 2)
                 \o decimalToHex(at(3), 2) \o decimalToHex(at(4), 2)
    IN  toUpperCase(hexId)

(***************************************************************************)
(* TextDecoder("utf-8").decode: the WHATWG UTF-8 decoder.  Ill-formed      *)
(* input yields U+FFFD and never an error; a leading byte-order mark is    *)
(* dropped.                                                                *)
(***************************************************************************)

ReplacementChar == \hFFFD

\* one run of the decoder from byte i on: cp is the code point being built,
\* needed the continuation bytes still expected, lower..upper the range the
\* next continuation byte has to lie in
RECURSIVE Utf8Run(_, _, _, _, _, _)
Utf8Run(bytes, i, cp, needed, lower, upper) ==
    IF i > Len(bytes)
    THEN IF needed > 0 THEN << ReplacementChar >> ELSE << >>
    ELSE LET b == bytes[i] IN
         IF needed = 0
         THEN IF b <= \h7F THEN << b >> \o Utf8Run(bytes, i + 1, 0, 0, \h80, \hBF)
              ELSE IF b >= \hC2 /\ b <= \hDF
                   THEN Utf8Run(bytes, i + 1, b - \hC0, 1, \h80, \hBF)
              ELSE IF b >= \hE0 /\ b <= \hEF
                   THEN Utf8Run(bytes, i + 1, b - \hE0, 2,
                                IF b = \hE0 THEN \hA0 ELSE \h80,
                                IF b = \hED THEN \h9F ELSE \hBF)
              ELSE IF b >= \hF0 /\ b <= \hF4
                   THEN Utf8Run(bytes, i + 1, b - \hF0, 3,
                                IF b = \hF0 THEN \h90 ELSE \h80,
                                IF b = \hF4 THEN \h8F ELSE \hBF)
              ELSE << ReplacementChar >> \o Utf8Run(bytes, i + 1, 0, 0, \h80, \hBF)
         ELSE IF b < lower \/ b > upper
              THEN << ReplacementChar >> \o Utf8Run(bytes, i, 0, 0, \h80, \hBF)
              ELSE IF needed = 1
                   THEN << cp * 64 + (b - \h80) >> \o Utf8Run(bytes, i + 1, 0, 0, \h80, \hBF)
                   ELSE Utf8Run(bytes, i + 1, cp * 64 + (b - \h80), needed - 1, \h80, \hBF)

Utf8Decode(bytes) ==
    IF Len(bytes) >= 3 /\ SubSeq(bytes, 1, 3) = << \hEF, \hBB, \hBF >>
    THEN Utf8Run(bytes, 4, 0, 0, \h80, \hBF)
    ELSE Utf8Run(bytes, 1, 0, 0, \h80, \hBF)

NameFieldLen == 32

\* new Uint16Array(arrayBuffer) throws a RangeError on an odd byte length
Uint16Throws(bytes) == Len(bytes) % 2 # 0

\* Array.from(new Uint16Array(arrayBuffer)): little-endian code units
Uint16Units(bytes) ==
    [ k \in 1..(Len(bytes) \div 2) |-> bytes[2 * k - 1] + 256 * bytes[2 * k] ]

\* the name read at one offset: new Int8Array(units) keeps the low byte of
\* each code unit, the decoder reads those bytes as UTF-8, and replaceAll
\* drops every null character
DecodeNameAt(fileData, offset) ==
    LET units == Uint16Units(BufferSlice(fileData, offset, offset + NameFieldLen))
        nameData == [ k \in 1..Len(units) |-> units[k] % 256 ]
    IN  SelectSeq(Utf8Decode(nameData), LAMBDA c : c # 0)

\* getCharacterNames(fileData) throws
getCharacterNamesThrows(fileData) ==
    \E k \in 1..Len(NameOffsets) :
        Uint16Throws(BufferSlice(fileData, NameOffsets[k], NameOffsets[k] + NameFieldLen))

\* getCharacterNames(fileData)
getCharacterNames(fileData) ==
    [ k \in 1..Len(NameOffsets) |-> DecodeNameAt(fileData, NameOffsets[k]) ]

RangeErrorMessage == "byte length of Uint16Array should be a multiple of 2"

\* parseInventory with the chunk size taken from the flag as it was before
\* getInventory ran
parseInventory_staleLayout(fileData, slotIndex, curFileData, curIsDlcFile) ==
    IF ~validateFile(fileData)
    THEN [ret |-> [success |-> FALSE, error |-> "Invalid save file format"],
          fileData |-> curFileData, isDlcFile |-> curIsDlcFile]
    ELSE IF getCharacterNamesThrows(fileData)
    THEN [ret |-> [success |-> FALSE, error |-> RangeErrorMessage],
          fileData |-> fileData, isDlcFile |-> curIsDlcFile]
    ELSE
      LET savesArray == Uint8View(fileData)
          slotName == getCharacterNames(fileData)[slotIndex + 1]
          got == getInventory(getSlots(savesArray, slotIndex), curIsDlcFile)
          inventory == ArrayFrom(got.inv)
          chunkSize == IF curIsDlcFile THEN 8 ELSE 16
          chunks == splitIntoChunks(inventory, chunkSize)
          itemIds == [ i \in 1..Len(chunks) |-> convertIdToHex(chunks[i]) ]
      IN  IF got.inv = NullView
          THEN [ret |-> [success |-> FALSE,
                         error |-> "Could not find inventory data in slot"],
                fileData |-> fileData, isDlcFile |-> got.isDlcFile]
          ELSE [ret |-> [success |-> TRUE, ids |-> itemIds, isDlc |-> got.isDlcFile,
                         characterName |-> slotName,
                         totalItems |-> Len(itemIds)],
                fileData |-> fileData, isDlcFile |-> got.isDlcFile]

\* parseInventory(fileData, slotIndex) on a parser whose fields are
\* (curFileData, curIsDlcFile): the returned object and the fields afterwards
parseInventory(fileData, slotIndex, curFileData, curIsDlcFile) ==
    IF ~validateFile(fileData)
    THEN [ret |-> [success |-> FALSE, error |-> "Invalid save file format"],
          fileData |-> curFileData, isDlcFile |-> curIsDlcFile]
    ELSE IF getCharacterNamesThrows(fileData)
    THEN [ret |-> [success |-> FALSE, error |-> RangeErrorMessage],
          fileData |-> fileData, isDlcFile |-> curIsDlcFile]
    ELSE
      LET savesArray == Uint8View(fileData)
          slotName == getCharacterNames(fileData)[slotIndex + 1]
          got == getInventory(getSlots(savesArray, slotIndex), curIsDlcFile)
          inventory == ArrayFrom(got.inv)
          chunkSize == IF got.isDlcFile THEN 8 ELSE 16
          chunks == splitIntoChunks(inventory, chunkSize)
          itemIds == [ i \in 1..Len(chunks) |-> convertIdToHex(chunks[i]) ]
      IN  IF got.inv = NullView
          THEN [ret |-> [success |-> FALSE,
                         error |-> "Could not find inventory data in slot"],
                fileData |-> fileData, isDlcFile |-> got.isDlcFile]
          ELSE [ret |-> [success |-> TRUE, ids |-> itemIds, isDlc |-> got.isDlcFile,
                         characterName |-> slotName,
                         totalItems |-> Len(itemIds)],
                fileData |-> fileData, isDlcFile |-> got.isDlcFile]

\* getSlotNames(fileData): it touches no field of the parser
getSlotNames(fileData) ==
    IF ~validateFile(fileData)
    THEN [success |-> FALSE, error |-> "Invalid save file format"]
    ELSE IF getCharacterNamesThrows(fileData)
    THEN [success |-> FALSE, error |-> RangeErrorMessage]
    ELSE [success |-> TRUE, names |-> getCharacterNames(fileData)]

(***************************************************************************)
(* JS objects.  An object with string keys is the sequence of its          *)
(* << key, value >> pairs in the order the properties were created; its    *)
(* keys are distinct.  Object.entries, for...of and spread visit the keys  *)
(* that are array indices first, in ascending numeric order, and the other *)
(* keys after them in creation order.                                      *)
(***************************************************************************)

Digits == << "0", "1", "2", "3", "4", "5", "6", "7", "8", "9" >>

DigitValue(c) == (CHOOSE k \in 1..Len(Digits) : Digits[k] = c) - 1

\* s < t for two digit strings of the same length
RECURSIVE DigitsLess(_, _)
DigitsLess(s, t) ==
    IF Len(s) = 0 THEN FALSE
    ELSE IF s[1] # t[1] THEN DigitValue(s[1]) < DigitValue(t[1])
    ELSE DigitsLess(Tail(s), Tail(t))

MaxArrayIndex == << "4", "2", "9", "4", "9", "6", "7", "2", "9", "4" >>

\* key is the canonical decimal form of an integer in 0 .. 2^32 - 2
IsArrayIndex(key) ==
    /\ Len(key) >= 1
    /\ Range(key) \subseteq Range(Digits)
    /\ Len(key) = 1 \/ key[1] # "0"
    /\ \/ Len(key) < Len(MaxArrayIndex)
       \/ Len(key) = Len(MaxArrayIndex) /\ ~DigitsLess(MaxArrayIndex, key)

\* numeric order of two array-index keys
IndexLess(a, b) == Len(a) < Len(b) \/ (Len(a) = Len(b) /\ DigitsLess(a, b))

\* Object.entries(obj)
ObjectEntries(obj) ==
    SortSeq(SelectSeq(obj, LAMBDA e : IsArrayIndex(e[1])), LAMBDA x, y : IndexLess(x[1], y[1]))
    \o SelectSeq(obj, LAMBDA e : ~IsArrayIndex(e[1]))

HasKey(obj, key) == \E i \in 1..Len(obj) : obj[i][1] = key

\* obj[key] = value
SetKey(obj, key, value) ==
    IF HasKey(obj, key)
    THEN [ i \in 1..Len(obj) |-> IF obj[i][1] = key THEN << key, value >> ELSE obj[i] ]
    ELSE Append(obj, << key, value >>)

\* { ...a, ...b }
RECURSIVE AssignAll(_, _)
AssignAll(target, entries) ==
    IF entries = << >> THEN target
    ELSE AssignAll(SetKey(target, Head(entries)[1], Head(entries)[2]), Tail(entries))

Spread(a, b) == AssignAll(AssignAll(<< >>, ObjectEntries(a)), ObjectEntries(b))

(***************************************************************************)
(* DataLoader.getMergedData                                                *)
(***************************************************************************)

\* a cache field that is null
NoData == << << "null" >> >>

\* a failed request
FetchFailed == << << "failed" >> >>

NetworkError(url) == "Network error loading " \o url

\* the files the loader requests
Urls == { "assets/json/data.json", "assets/json/dlcData.json", "assets/json/collectibles.json" }

\* loadingPromises[url] is undefined
NoPromise == 0

\* the content of collectibles.json
CollectiblesData == << << "collectibles", << >> >> >>

\* loadAll({includeDLC}) once every request it started has settled: the cache,
\* and the errors of the requests that failed.  base, dlc and collectibles
\* are the outcomes of the requests for data.json, dlcData.json and
\* collectibles.json; loadLocationData and loadCollectibles run side by side,
\* and loadAll rejects with the error of the request that fails first
loadAll(cache, includeDLC, base, dlc, collectibles) ==
    LET fetchBase == cache.locationData = NoData
        baseFailed == fetchBase /\ base = FetchFailed
        fetchDlc == ~baseFailed /\ includeDLC /\ cache.dlcData = NoData
        dlcFailed == fetchDlc /\ dlc = FetchFailed
        fetchCollectibles == cache.collectibles = NoData
        collectiblesFailed == fetchCollectibles /\ collectibles = FetchFailed
    IN  [ cache |->
            [ locationData |-> IF fetchBase /\ ~baseFailed THEN base ELSE cache.locationData,
              dlcData |-> IF fetchDlc /\ ~dlcFailed THEN dlc ELSE cache.dlcData,
              collectibles |-> IF fetchCollectibles /\ ~collectiblesFailed
                               THEN collectibles ELSE cache.collectibles ],
          errors |->
            (IF baseFailed THEN { NetworkError("assets/json/data.json") } ELSE { })
            \cup (IF dlcFailed THEN { NetworkError("assets/json/dlcData.json") } ELSE { })
            \cup (IF collectiblesFailed
                  THEN { NetworkError("assets/json/collectibles.json") } ELSE { }) ]

\* if (!this.dataLoader.cache.locationData) await this.initialize({includeDLC})
loadIfMissing(cache, includeDLC, base, dlc, collectibles) ==
    IF cache.locationData = NoData
    THEN loadAll(cache, includeDLC, base, dlc, collectibles)
    ELSE [cache |-> cache, errors |-> { }]

\* getMergedData(includeDLC) throws when the base data is not loaded
getMergedDataThrows(cache) == cache.locationData = NoData

\* getMergedData(includeDLC)
getMergedData(cache, includeDLC) ==
    IF ~includeDLC \/ cache.dlcData = NoData THEN cache.locationData
    ELSE Spread(cache.locationData, cache.dlcData)

(***************************************************************************)
(* TrackerCore                                                             *)
(***************************************************************************)

\* itemData.<field> || default, for a text and for a boolean property
OrElse(rec, field, default) ==
    IF field \in DOMAIN rec /\ rec[field] # << >> THEN rec[field] ELSE default

OrFalse(rec, field) == field \in DOMAIN rec /\ rec[field]

\* the number of digits name ends with
RECURSIVE TrailingDigits(_)
TrailingDigits(name) ==
    IF Len(name) = 0 \/ name[Len(name)] \notin Range(Digits) THEN 0
    ELSE 1 + TrailingDigits(SubSeq(name, 1, Len(name) - 1))

\* itemName.replace(/ \+\d+$/, ""): the name without a final " +<digits>"
StripUpgrade(name) ==
    LET k == TrailingDigits(name)
        n == Len(name)
    IN  IF k >= 1 /\ n - k >= 2 /\ name[n - k] = "+" /\ name[n - k - 1] = " "
        THEN SubSeq(name, 1, n - k - 2) ELSE name

WikiBase == << "https://eldenring.wiki.fextralife.com/" >>

\* generateWikiUrl(itemName)
generateWikiUrl(itemName) ==
    LET cleanName == StripUpgrade(itemName)
        urlName == [ i \in 1..Len(cleanName) |->
                       IF cleanName[i] = " " THEN "+" ELSE cleanName[i] ]
    IN  WikiBase \o urlName

\* the items pushed for one subregion
SubregionItems(region, subregion, items, ownedIdSet) ==
    LET es == ObjectEntries(items) IN
    [ i \in 1..Len(es) |->
        [ id |-> es[i][1],
          name |-> es[i][2].name,
          owned |-> es[i][1] \in ownedIdSet,
          region |-> region,
          subregion |-> subregion,
          type |-> OrElse(es[i][2], "type", << "u", "n", "k", "n", "o", "w", "n" >>),
          hint |-> OrElse(es[i][2], "hint", << >>),
          farmable |-> OrFalse(es[i][2], "multiple"),
          wikiUrl |-> generateWikiUrl(es[i][2].name) ] ]

\* the items pushed for one region
RegionItems(region, subregions, ownedIdSet) ==
    LET es == ObjectEntries(subregions) IN
    Concat([ i \in 1..Len(es) |-> SubregionItems(region, es[i][1], es[i][2], ownedIdSet) ])

\* crossReference missing every identifier but the first decoded one
crossReference_firstIdOnly(cache, inventoryIds, includeDLC) ==
    LET es == ObjectEntries(getMergedData(cache, includeDLC))
        ownedIdSet == IF inventoryIds = << >> THEN {} ELSE { inventoryIds[1] }
    IN  Concat([ i \in 1..Len(es) |-> RegionItems(es[i][1], es[i][2], ownedIdSet) ])

\* crossReference owning an identifier only when it was decoded exactly once
crossReference_countBased(cache, inventoryIds, includeDLC) ==
    LET es == ObjectEntries(getMergedData(cache, includeDLC))
        ownedIdSet == { inventoryIds[i] : i \in
                          { j \in 1..Len(inventoryIds) :
                              \A k \in 1..Len(inventoryIds) :
                                  inventoryIds[k] = inventoryIds[j] => k = j } }
    IN  Concat([ i \in 1..Len(es) |-> RegionItems(es[i][1], es[i][2], ownedIdSet) ])

\* crossReference(includeDLC)
crossReference(cache, inventoryIds, includeDLC) ==
    LET es == ObjectEntries(getMergedData(cache, includeDLC))
        ownedIdSet == Range(inventoryIds)
    IN  Concat([ i \in 1..Len(es) |-> RegionItems(es[i][1], es[i][2], ownedIdSet) ])

(***************************************************************************)
(* Numbers.  A positive double is [bits, exp]: bits are the 53 bits of its *)
(* significand, the first one 1, and its value is the number the bits      *)
(* spell times 2^exp.  Results are rounded to the nearest double, ties to  *)
(* the even significand.                                                   *)
(***************************************************************************)

SignificandBits == 53

\* the number the first n bits spell
RECURSIVE BitsValue(_, _)
BitsValue(bits, n) == IF n = 0 THEN 0 ELSE 2 * BitsValue(bits, n - 1) + bits[n]

\* bits + 1, one bit longer when every bit is 1
RECURSIVE PlusOne(_)
PlusOne(bits) ==
    IF bits = << >> THEN << 1 >>
    ELSE IF bits[Len(bits)] = 0 THEN SubSeq(bits, 1, Len(bits) - 1) \o << 1 >>
    ELSE PlusOne(SubSeq(bits, 1, Len(bits) - 1)) \o << 0 >>

\* a bit string as digits of LimbBits bits each, and back
LimbBits == 14
LimbBase == 2 ^ LimbBits

ToLimbs(bits) ==
    LET pad == (LimbBits - (Len(bits) % LimbBits)) % LimbBits
        padded == Repeat(0, pad) \o bits
    IN  [ j \in 1..(Len(padded) \div LimbBits) |->
            BitsValue(SubSeq(padded, LimbBits * (j - 1) + 1, LimbBits * j), LimbBits) ]

ToBits(limbs) ==
    [ i \in 1..(LimbBits * Len(limbs)) |->
        (limbs[(i - 1) \div LimbBits + 1] \div 2 ^ (LimbBits - 1 - ((i - 1) % LimbBits))) % 2 ]

\* limbs * k for a small k, one digit longer
RECURSIVE TimesFrom(_, _, _, _)
TimesFrom(limbs, k, i, carry) ==
    IF i = 0 THEN << carry >>
    ELSE TimesFrom(limbs, k, i - 1, (limbs[i] * k + carry) \div LimbBase)
         \o << (limbs[i] * k + carry) % LimbBase >>

RECURSIVE StripZeros(_)
StripZeros(bits) ==
    IF bits # << >> /\ bits[1] = 0 THEN StripZeros(Tail(bits)) ELSE bits

\* the double nearest to the number that bits (first bit 1, 53 bits or more)
\* spell times 2^exp; sticky tells that the number is a little larger
RoundToDouble(bits, exp, sticky) ==
    LET dropped == Len(bits) - SignificandBits
        kept == SubSeq(bits, 1, SignificandBits)
        rest == SubSeq(bits, SignificandBits + 1, Len(bits))
        half == dropped >= 1 /\ rest[1] = 1
        above == sticky \/ \E i \in 2..dropped : rest[i] = 1
        up == half /\ (above \/ kept[SignificandBits] = 1)
        rounded == IF up THEN PlusOne(kept) ELSE kept
    IN  IF Len(rounded) > SignificandBits
        THEN [bits |-> SubSeq(rounded, 1, SignificandBits), exp |-> exp + dropped + 1]
        ELSE [bits |-> rounded, exp |-> exp + dropped]

\* the first n bits of the binary fraction r / t, for r < t, followed by
\* what is left of r
RECURSIVE FractionBits(_, _, _)
FractionBits(r, t, n) ==
    IF n = 0 THEN << r >>
    ELSE IF 2 * r >= t THEN << 1 >> \o FractionBits(2 * r - t, t, n - 1)
    ELSE << 0 >> \o FractionBits(2 * r, t, n - 1)

\* the position of the first 1 in the binary fraction r / t, for 0 < r < t
RECURSIVE FirstOne(_, _)
FirstOne(r, t) == IF 2 * r >= t THEN 1 ELSE 1 + FirstOne(2 * r, t)

\* owned / total for 0 < owned < total
Divide(owned, total) ==
    LET k == FirstOne(owned, total)
        n == k + SignificandBits
        all == FractionBits(owned, total, n)
    IN  RoundToDouble(SubSeq(all, k, n), 0 - n, all[n + 1] # 0)

\* x * 100
TimesHundred(x) ==
    LET limbs == ToLimbs(x.bits)
        product == StripZeros(ToBits(TimesFrom(limbs, 100, Len(limbs), 0)))
    IN  RoundToDouble(product, x.exp, FALSE)

\* Math.round(x) for 0 < x < 2^31: the integer part plus the first bit of the
\* fraction
MathRound(x) ==
    LET whole == SignificandBits + x.exp
    IN  IF whole < 0 THEN 0
        ELSE BitsValue(x.bits, whole) + x.bits[whole + 1]

\* Math.round((owned / total) * 100) for total > 0
MathRoundPercent(owned, total) ==
    IF owned = 0 THEN 0
    ELSE IF owned = total THEN 100
    ELSE MathRound(TimesHundred(Divide(owned, total)))

Percentage(owned, total) == IF total > 0 THEN MathRoundPercent(owned, total) ELSE 0

\* the counters of the items that satisfy P
CountStats(items, P(_)) ==
    LET mine == SelectSeq(items, P)
        owned == Len(SelectSeq(mine, LAMBDA item : item.owned))
    IN  [ total |-> Len(mine), owned |-> owned, missing |-> Len(mine) - owned,
          percentage |-> Percentage(owned, Len(mine)) ]

(***************************************************************************)
(* determineCategory.  A number is << high, low >>: its value is           *)
(* high * 2^16 + low; NaN is the JS NaN.                                   *)
(***************************************************************************)

NaN == << -1, -1 >>

HexValue(c) ==
    IF \E k \in 1..16 : HexDigits[k] = c THEN (CHOOSE k \in 1..16 : HexDigits[k] = c) - 1
    ELSE IF \E k \in 1..16 : UpperHexDigits[k] = c
         THEN (CHOOSE k \in 1..16 : UpperHexDigits[k] = c) - 1
    ELSE -1

\* the value of the longest prefix of hex digits of s from position i on
RECURSIVE HexPrefixValue(_, _, _)
HexPrefixValue(s, i, acc) ==
    IF i > Len(s) \/ HexValue(s[i]) < 0 THEN acc
    ELSE HexPrefixValue(s, i + 1,
            << acc[1] * 16 + (acc[2] \div 4096), (acc[2] % 4096) * 16 + HexValue(s[i]) >>)

WhiteSpace == { " " }

RECURSIVE SkipWhiteSpace(_, _)
SkipWhiteSpace(s, i) ==
    IF i <= Len(s) /\ s[i] \in WhiteSpace THEN SkipWhiteSpace(s, i + 1) ELSE i

\* parseInt(itemId, 16): NaN, or the sign and the magnitude
parseInt16(itemId) ==
    LET i0 == SkipWhiteSpace(itemId, 1)
        neg == i0 <= Len(itemId) /\ itemId[i0] = "-"
        i1 == IF i0 <= Len(itemId) /\ itemId[i0] \in { "+", "-" } THEN i0 + 1 ELSE i0
        i2 == IF i1 + 1 <= Len(itemId) /\ itemId[i1] = "0" /\ itemId[i1 + 1] \in { "x", "X" }
              THEN i1 + 2 ELSE i1
    IN  IF i2 > Len(itemId) \/ HexValue(itemId[i2]) < 0 THEN [nan |-> TRUE, neg |-> FALSE, abs |-> NaN]
        ELSE [nan |-> FALSE, neg |-> neg, abs |-> HexPrefixValue(itemId, i2, << 0, 0 >>)]

\* id >= bound and id <= bound for a non-negative literal bound
GreaterEq(id, bound) ==
    /\ ~id.nan
    /\ IF id.neg THEN id.abs = << 0, 0 >> /\ bound = << 0, 0 >>
       ELSE id.abs[1] > bound[1] \/ (id.abs[1] = bound[1] /\ id.abs[2] >= bound[2])

LessEq(id, bound) ==
    /\ ~id.nan
    /\ \/ id.neg
       \/ id.abs[1] < bound[1] \/ (id.abs[1] = bound[1] /\ id.abs[2] <= bound[2])

InRange(id, low, high) == GreaterEq(id, low) /\ LessEq(id, high)

\* determineCategory(itemId)
determineCategory(itemId) ==
    LET id == parseInt16(itemId) IN
    IF InRange(id, << \h00F4, \h2400 >>, << \h017D, \h7840 >>) THEN "Weapons"
    ELSE IF InRange(id, << \h1000, \h0000 >>, << \h1400, \h0000 >>) THEN "Armor"
    ELSE IF InRange(id, << \h2000, \h0000 >>, << \h2400, \h0000 >>) THEN "Talismans"
    ELSE IF InRange(id, << \h4000, \h0000 >>, << \h4800, \h0000 >>) THEN "Magic"
    ELSE IF InRange(id, << \h8000, \h0000 >>, << \h8800, \h0000 >>) THEN "Ashes of War"
    ELSE IF InRange(id, << \h9000, \h0000 >>, << \h9800, \h0000 >>) THEN "Spirit Ashes"
    ELSE IF InRange(id, << \h4000, \h07F0 >>, << \h4000, \h0850 >>) THEN "Bell Bearings"
    ELSE IF InRange(id, << \h4000, \h2400 >>, << \h4000, \h2500 >>) THEN "Cookbooks"
    ELSE IF InRange(id, << \h4000, \h0BC0 >>, << \h4000, \h0BF0 >>) THEN "Crystal Tears"
    ELSE IF InRange(id, << \h4000, \h0000 >>, << \h4000, \h1000 >>) THEN "Key Items"
    ELSE "Other"

\* calculateCategoryStats()
calculateCategoryStats(enrichedItems) ==
    [ category \in { determineCategory(enrichedItems[i].id) : i \in 1..Len(enrichedItems) } |->
        CountStats(enrichedItems, LAMBDA item : determineCategory(item.id) = category) ]

\* calculateRegionalStats()
calculateRegionalStats(enrichedItems) ==
    [ region \in { enrichedItems[i].region : i \in 1..Len(enrichedItems) } |->
        CountStats(enrichedItems, LAMBDA item : item.region = region) ]

\* calculateStats with the percentage taken from the missing count
calculateStats_missingPercentage(enrichedItems) ==
    LET total == Len(enrichedItems)
        owned == Len(SelectSeq(enrichedItems, LAMBDA item : item.owned))
        missing == total - owned
    IN  [ total |-> total, owned |-> owned, missing |-> missing,
          percentage |-> Percentage(missing, total),
          categories |-> calculateCategoryStats(enrichedItems),
          regions |-> calculateRegionalStats(enrichedItems) ]

\* calculateStats()
calculateStats(enrichedItems) ==
    LET total == Len(enrichedItems)
        owned == Len(SelectSeq(enrichedItems, LAMBDA item : item.owned))
        missing == total - owned
    IN  [ total |-> total, owned |-> owned, missing |-> missing,
          percentage |-> Percentage(owned, total),
          categories |-> calculateCategoryStats(enrichedItems),
          regions |-> calculateRegionalStats(enrichedItems) ]

\* "needle" occurs in "hay": String.prototype.includes
Includes(hay, needle) ==
    \E i \in 0..(Len(hay) - Len(needle)) : SubSeq(hay, i + 1, i + Len(needle)) = needle

\* JS null where a string is expected
Null == << "null" >>

\* criteria.<field> is present and truthy, for a field holding text
Given(criteria, field) ==
    /\ field \in DOMAIN criteria
    /\ criteria[field] # << >>
    /\ criteria[field] # Null

\* the same for a field holding a word that is only compared as a whole
GivenWord(criteria, field) ==
    /\ field \in DOMAIN criteria
    /\ criteria[field] # ""

\* filterItems without the 'missing' branch
filterItems_noMissingBranch(enrichedItems, criteria) ==
    LET byStatus ==
            IF GivenWord(criteria, "status") /\ criteria.status = "owned"
            THEN SelectSeq(enrichedItems, LAMBDA item : item.owned)
            ELSE enrichedItems
        byRegion ==
            IF Given(criteria, "region")
            THEN SelectSeq(byStatus, LAMBDA item : item.region = criteria.region)
            ELSE byStatus
        byCategory ==
            IF GivenWord(criteria, "category")
            THEN SelectSeq(byRegion, LAMBDA item : determineCategory(item.id) = criteria.category)
            ELSE byRegion
    IN  IF Given(criteria, "search")
        THEN SelectSeq(byCategory,
                 LAMBDA item : Includes(toLowerCase(item.name), toLowerCase(criteria.search)))
        ELSE byCategory

\* filterItems comparing the name as it is written
filterItems_caseSensitive(enrichedItems, criteria) ==
    LET byStatus ==
            IF GivenWord(criteria, "status") /\ criteria.status = "owned"
            THEN SelectSeq(enrichedItems, LAMBDA item : item.owned)
            ELSE IF GivenWord(criteria, "status") /\ criteria.status = "missing"
            THEN SelectSeq(enrichedItems, LAMBDA item : ~item.owned)
            ELSE enrichedItems
        byRegion ==
            IF Given(criteria, "region")
            THEN SelectSeq(byStatus, LAMBDA item : item.region = criteria.region)
            ELSE byStatus
        byCategory ==
            IF GivenWord(criteria, "category")
            THEN SelectSeq(byRegion, LAMBDA item : determineCategory(item.id) = criteria.category)
            ELSE byRegion
    IN  IF Given(criteria, "search")
        THEN SelectSeq(byCategory,
                 LAMBDA item : Includes(item.name, toLowerCase(criteria.search)))
        ELSE byCategory

\* filterItems(criteria): the returned array
filterItems(enrichedItems, criteria) ==
    LET byStatus ==
            IF GivenWord(criteria, "status") /\ criteria.status = "owned"
            THEN SelectSeq(enrichedItems, LAMBDA item : item.owned)
            ELSE IF GivenWord(criteria, "status") /\ criteria.status = "missing"
            THEN SelectSeq(enrichedItems, LAMBDA item : ~item.owned)
            ELSE enrichedItems
        byRegion ==
            IF Given(criteria, "region")
            THEN SelectSeq(byStatus, LAMBDA item : item.region = criteria.region)
            ELSE byStatus
        byCategory ==
            IF GivenWord(criteria, "category")
            THEN SelectSeq(byRegion, LAMBDA item : determineCategory(item.id) = criteria.category)
            ELSE byRegion
    IN  IF Given(criteria, "search")
        THEN SelectSeq(byCategory,
                 LAMBDA item : Includes(toLowerCase(item.name), toLowerCase(criteria.search)))
        ELSE byCategory

(***************************************************************************)
(* Input buffers                                                           *)
(***************************************************************************)

MaxRecords == 2

\* the bytes written at offset off
Place(off, bytes) == [ o \in off..(off + Len(bytes) - 1) |-> bytes[o - off + 1] ]

\* a buffer of byteLength len that starts with sig and holds content at the
\* start of the window of slot k
SlotFile(len, sig, k, content) ==
    [len |-> len, data |-> Place(0, sig) @@ Place(SlotBegin[k + 1], content)]

\* the same buffer with name field k holding the code units of name
WithName(f, k, units) ==
    [f EXCEPT !.data =
        Place(NameOffsets[k + 1],
              Concat([ i \in 1..Len(units) |-> << units[i] % 256, units[i] \div 256 >> ]))
        @@ @]

\* the byteLength of a buffer that holds all ten name fields
FullLen == NameOffsets[Len(NameOffsets)] + NameFieldLen

\* record contents: 16-byte records and 8-byte records
RecordsNormal ==
    { << \hEF, \hBE, \hAD, \hDE >> \o Repeat(0, 12),
      Repeat(1, 16),
      << \h10, 0, 0, \h40 >> \o Repeat(0, 7) \o << 7 >> \o Repeat(0, 4) }

RecordsDlc ==
    { << \hEF, \hBE, \hAD, \hDE >> \o Repeat(0, 4),
      Repeat(1, 8),
      << 5 >> \o Repeat(0, 7) }

RECURSIVE SeqsUpTo(_, _)
SeqsUpTo(S, n) ==
    IF n = 0 THEN { << >> }
    ELSE LET shorter == SeqsUpTo(S, n - 1)
         IN  shorter \cup { <<x>> \o t : x \in S, t \in { u \in shorter : Len(u) = n - 1 } }

SkipFills == { 0, \hFF }

\* a slot made of the marker of a layout, its skip bytes, the records and the
\* 50 zero bytes
SynthSlot(dlc, fill, recs) ==
    (IF dlc THEN PATTERN_DLC \o Repeat(fill, 3) ELSE PATTERN_NORMAL \o Repeat(fill, 8))
    \o Concat(recs) \o Repeat(0, EndPatternLen)

SynthShapes ==
    { [dlc |-> FALSE, fill |-> fill, recs |-> recs] :
        fill \in SkipFills,
        recs \in { r \in SeqsUpTo(RecordsNormal, MaxRecords) : Len(r) >= 1 } }
    \cup
    { [dlc |-> TRUE, fill |-> fill, recs |-> recs] :
        fill \in SkipFills,
        recs \in { r \in SeqsUpTo(RecordsDlc, MaxRecords) : Len(r) >= 1 } }

NameUnits == << \h41, \h62 >>

\* the saves built around a synthetic slot: one that ends with its slot 0,
\* and a full-length one with the slot in window 9 and a character name
SynthPlaces == { 0, 9 }

SynthFile(sh, k) ==
    LET content == SynthSlot(sh.dlc, sh.fill, sh.recs) IN
    IF k = 0 THEN SlotFile(SlotBegin[1] + Len(content), FILE_SIGNATURE, 0, content)
    ELSE WithName(SlotFile(FullLen, FILE_SIGNATURE, k, content), k, NameUnits)

GoodShape == [dlc |-> FALSE, fill |-> 0,
              recs |-> << << \hEF, \hBE, \hAD, \hDE >> \o Repeat(0, 12) >>]
DlcShape == [dlc |-> TRUE, fill |-> 0, recs |-> << << 5 >> \o Repeat(0, 7) >>]

GoodSlot == SynthSlot(GoodShape.dlc, GoodShape.fill, GoodShape.recs)

\* a valid save whose slot 0 has the expansion marker and no terminator
NoTerminatorFile ==
    SlotFile(SlotBegin[1] + 40, FILE_SIGNATURE, 0, PATTERN_DLC \o Repeat(1, 35))

\* a slot in which the expansion marker, skip bytes and one 8-byte record
\* precede the standard marker, skip bytes, one 16-byte record and 50 zeros
MixedSlot ==
    PATTERN_DLC \o Repeat(0, 3) \o Repeat(1, 8)
    \o PATTERN_NORMAL \o Repeat(0, 8) \o << \hEF, \hBE, \hAD, \hDE >> \o Repeat(0, 12)
    \o Repeat(0, EndPatternLen)

\* valid saves with a slot 0 of another make
\* the code units of a name with a character above U+00FF
WideNameUnits == << \h41, \h0142 >>

OddFiles ==
    { SlotFile(SlotBegin[1] + Len(MixedSlot), FILE_SIGNATURE, 0, MixedSlot),
      WithName(SlotFile(FullLen, FILE_SIGNATURE, 0, GoodSlot), 0, WideNameUnits) }

\* buffers that do not start with the signature
BadFiles ==
    { [len |-> 0, data |-> << >>],
      [len |-> 3, data |-> Place(0, << 66, 78, 68 >>)],
      SlotFile(FullLen, << 66, 78, 68, 51 >>, 0, GoodSlot),
      SlotFile(SlotBegin[1] + Len(GoodSlot), << 98, 78, 68, 52 >>, 0, GoodSlot) }

\* the second buffer of a run: every synthetic save is run with the save
\* that has no terminator, and two of them with each of the other buffers
Inputs ==
    { [shape |-> sh, slot |-> k, other |-> NoTerminatorFile] :
        sh \in SynthShapes, k \in SynthPlaces }
    \cup
    { [shape |-> sh, slot |-> k, other |-> o] :
        sh \in { GoodShape, DlcShape }, k \in SynthPlaces, o \in BadFiles \cup OddFiles }

(***************************************************************************)
(* Catalogs and decoded lists                                              *)
(***************************************************************************)

ID_DEADBEEF == << "D", "E", "A", "D", "B", "E", "E", "F" >>
ID_Weapon == << "0", "0", "F", "4", "2", "4", "0", "0" >>
ID_Armor == << "1", "0", "0", "0", "0", "0", "0", "0" >>
ID_Talisman == << "2", "0", "0", "0", "0", "0", "0", "0" >>
ID_Bell == << "4", "0", "0", "0", "0", "7", "F", "0" >>
ID_Cookbook == << "4", "0", "0", "0", "2", "4", "0", "0" >>
ID_Ash == << "8", "0", "0", "0", "0", "0", "0", "0" >>
ID_NotHex == << "z", "z" >>
ID_Garbage == << "0", "0", "0", "0", "N", "A", "N", "N", "A", "N" >>

RegionA == << "R", "e", "g", "i", "o", "n", "A" >>
SubA == << "S", "u", "b", "A" >>
Limgrave == << "L", "i", "m", "g", "r", "a", "v", "e" >>
Caelid == << "C", "a", "e", "l", "i", "d" >>
Shadow == << "S", "h", "a", "d", "o", "w" >>
Church == << "C", "h", "u", "r", "c", "h" >>
Cave == << "C", "a", "v", "e" >>
Fort == << "F", "o", "r", "t" >>
Ruin == << "R", "u", "i", "n" >>
Keep == << "K", "e", "e", "p" >>

\* {"RegionA": {"SubA": {"DEADBEEF": {"name": "Test Sword"}}}}
ScenarioCatalog ==
    << << RegionA, << << SubA, << << ID_DEADBEEF, [name |-> << "T", "e", "s", "t", " ", "S", "w", "o", "r", "d" >>] >> >> >> >> >> >>

\* two regions; one identifier made of decimal digits only, one identifier
\* listed in two regions, one key that is not a hex number
BaseCatalog ==
    << << Limgrave,
          << << Church, << << ID_Weapon, [name |-> << "D", "a", "g", "g", "e", "r" >>, type |-> << "c", "h", "e", "s", "t" >>] >>,
                           << ID_Bell, [name |-> << "B", "e", "l", "l" >>, hint |-> << "h" >>] >>,
                           << ID_Armor, [name |-> << "H", "e", "l", "m", " ", "+", "1" >>, multiple |-> TRUE] >> >> >>,
             << Cave, << << ID_DEADBEEF, [name |-> << "T", "e", "s", "t", " ", "S", "w", "o", "r", "d" >>] >> >> >> >> >>,
       << Caelid,
          << << Fort, << << ID_Weapon, [name |-> << "D", "a", "g", "g", "e", "r" >>, multiple |-> FALSE] >>,
                         << ID_Talisman, [name |-> << "C", "h", "a", "r", "m" >>] >>,
                         << ID_NotHex, [name |-> << "S", "t", "o", "n", "e" >>] >> >> >> >> >> >>

\* a region without items
EmptyCatalog == << << RegionA, << << SubA, << >> >> >> >> >>

\* the expansion data: it replaces one region of the base data and adds one
DlcCatalog ==
    << << Caelid, << << Ruin, << << ID_Cookbook, [name |-> << "C", "o", "o", "k", "b", "o", "o", "k" >>] >> >> >> >> >>,
       << Shadow, << << Keep, << << ID_Ash, [name |-> << "A", "s", "h" >>] >> >> >> >> >> >>

\* forty items in one subregion, A0000001 to A0000028
GridId(i) ==
    << "A", "0", "0", "0", "0", "0", UpperHexDigits[(i \div 16) + 1], UpperHexDigits[(i % 16) + 1] >>

GridCatalog ==
    << << Limgrave,
          << << Church, [ i \in 1..40 |-> << GridId(i), [name |-> << "I", "t", "e", "m" >>] >> ] >> >> >> >>

\* the identifiers of twenty-three of them
GridOwned == [ i \in 1..23 |-> GridId(i) ]

BaseCatalogs == { ScenarioCatalog, BaseCatalog, EmptyCatalog, GridCatalog }
DlcCatalogs == { DlcCatalog }

\* decoded identifier lists: empty, one identifier, repeated and unknown
\* identifiers, and every identifier of every catalog
IdLists ==
    { << >>,
      << ID_DEADBEEF >>,
      << ID_Garbage, ID_Weapon, ID_Weapon, ID_Cookbook >>,
      << ID_Armor, ID_DEADBEEF, ID_Weapon >>,
      << ID_Weapon, ID_Bell, ID_Armor, ID_DEADBEEF, ID_Talisman, ID_NotHex,
         ID_Cookbook, ID_Ash >>,
      GridOwned }

\* the criteria objects handed to filterItems
Criteria ==
    { [status |-> st] @@ r @@ c @@ s :
        st \in { "all", "owned", "missing" },
        r \in { << >>, [region |-> Caelid] },
        c \in { << >>, [category |-> "Weapons"] },
        s \in { << >>, [search |-> << "D", "A" >>] } }
    \cup
    { [status |-> st, search |-> << >>, region |-> Null] : st \in { "all", "owned", "missing" } }
    \cup
    { << >>,
      [status |-> ""],
      [region |-> << >>],
      [category |-> ""],
      [category |-> "Other", search |-> << "e" >>],
      [category |-> "Bell Bearings"],
      [region |-> Limgrave, search |-> << " ", "+", "1" >>] }

NoFile == [len |-> -1, data |-> << >>]

(***************************************************************************)
(* State                                                                   *)
(***************************************************************************)

VARIABLES
    input,          \* how files[1] was built: the shape of its slot and the slot index
    files,          \* the buffers the caller holds, a pair
    fileData,       \* BinaryParser.fileData (NoFile for null)
    isDlcFile,      \* BinaryParser.isDlcFile
    call,           \* the last method call: its name and arguments
    ret,            \* the value it returned
    cache,          \* DataLoader.cache
    inventoryIds,   \* TrackerCore.inventoryIds
    characterName,  \* TrackerCore.characterName
    isDlc,          \* TrackerCore.isDlc
    enrichedItems,  \* TrackerCore.enrichedItems
    stats,          \* TrackerCore.stats
    app,            \* the EldenRingTracker: currentFileData (an index of files), currentSlot
    ui,             \* the page as UI shows it
    reading,        \* the files a FileReader is reading
    loadingPromises,\* DataLoader.loadingPromises: per URL a promise, or NoPromise
    promises        \* the promises fetchJSON created, each with its request

parserVars == << input, files, fileData, isDlcFile >>

coreVars == << cache, inventoryIds, characterName, isDlc, enrichedItems, stats >>

appVars == << app, ui, reading >>

\* the requests are followed one by one in the loader's specification; the
\* other specifications take the outcome of each request as an input
requestVars == << loadingPromises, promises >>

vars == << parserVars, coreVars, appVars, requestVars, call, ret >>

NoCall == [op |-> "none", k |-> 0, slotIndex |-> 0]

NoReturn == [success |-> FALSE, error |-> ""]

\* new BinaryParser()
NewParser ==
    /\ fileData = NoFile
    /\ isDlcFile = FALSE

\* new DataLoader()
NewLoader ==
    /\ cache = [locationData |-> NoData, dlcData |-> NoData, collectibles |-> NoData]
    /\ loadingPromises = [ url \in Urls |-> NoPromise ]
    /\ promises = << >>

\* the fields set by new TrackerCore()
NewCore ==
    /\ inventoryIds = << >>
    /\ characterName = << >>
    /\ isDlc = FALSE
    /\ enrichedItems = << >>
    /\ stats = [total |-> 0, owned |-> 0, missing |-> 0, percentage |-> 0,
                categories |-> << >>]

\* this.currentFileData = null, this.currentSlot = null
NoUpload == 0
NullSlot == -3

\* the outcome of a handler that alerted nothing and threw nothing
Quiet == [alert |-> "", uncaught |-> ""]

\* new EldenRingTracker(): the controller's fields
NewApp ==
    /\ app = [currentFileData |-> NoUpload, currentSlot |-> NullSlot]
    /\ reading = { }

\* a page with everything hidden and nothing shown
NoPage ==
    [ loadingHidden |-> TRUE, resultsHidden |-> TRUE, slotOptionsHidden |-> TRUE,
      slotNames |-> << >>, globalStats |-> << >> ]

(***************************************************************************)
(* The parser on its own                                                   *)
(***************************************************************************)

InitParser ==
    /\ \E in \in Inputs :
          /\ input = [shape |-> in.shape, slot |-> in.slot]
          /\ files = << SynthFile(in.shape, in.slot), in.other >>
    /\ NewParser
    /\ NewLoader
    /\ NewCore
    /\ NewApp
    /\ ui = NoPage
    /\ call = NoCall
    /\ ret = NoReturn

SlotChoices == { 0, 1, 9 }

\* parser.parseInventory(files[k], slotIndex)
ParseInventory(k, slotIndex) ==
    LET r == parseInventory(files[k], slotIndex, fileData, isDlcFile) IN
    /\ call' = [op |-> "parseInventory", k |-> k, slotIndex |-> slotIndex]
    /\ ret' = r.ret
    /\ fileData' = r.fileData
    /\ isDlcFile' = r.isDlcFile
    /\ UNCHANGED << input, files, coreVars, appVars, requestVars >>

\* parser.getSlotNames(files[k])
GetSlotNames(k) ==
    /\ call' = [op |-> "getSlotNames", k |-> k, slotIndex |-> 0]
    /\ ret' = getSlotNames(files[k])
    /\ UNCHANGED << parserVars, coreVars, appVars, requestVars >>

NextParser ==
    \/ \E k \in 1..2, slotIndex \in SlotChoices : ParseInventory(k, slotIndex)
    \/ \E k \in 1..2 : GetSlotNames(k)

SpecParser == InitParser /\ [][NextParser]_vars

(***************************************************************************)
(* Cross-reference, statistics and filter on a loaded catalog              *)
(***************************************************************************)

NoInput == [shape |-> GoodShape, slot |-> 0]

\* a tracker whose loader holds a catalog and whose inventoryIds were decoded
InitCore ==
    /\ input = NoInput
    /\ files = << NoFile, NoFile >>
    /\ NewParser
    /\ cache \in [locationData : BaseCatalogs, dlcData : { NoData } \cup DlcCatalogs,
                  collectibles : { CollectiblesData }]
    /\ loadingPromises = [ url \in Urls |-> NoPromise ]
    /\ promises = << >>
    /\ inventoryIds \in IdLists
    /\ characterName = << >>
    /\ isDlc = FALSE
    /\ enrichedItems = << >>
    /\ stats = [total |-> 0, owned |-> 0, missing |-> 0, percentage |-> 0,
                categories |-> << >>]
    /\ NewApp
    /\ ui = NoPage
    /\ call = [op |-> "none"]
    /\ ret = << >>

\* this.enrichedItems = this.crossReference(includeDLC); this.calculateStats()
CrossReference(includeDLC) ==
    /\ ~getMergedDataThrows(cache)
    /\ enrichedItems' = crossReference(cache, inventoryIds, includeDLC)
    /\ stats' = calculateStats(enrichedItems')
    /\ call' = [op |-> "crossReference", includeDLC |-> includeDLC]
    /\ ret' = enrichedItems'
    /\ UNCHANGED << parserVars, cache, inventoryIds, characterName, isDlc, appVars,
                    requestVars >>

\* filterItems(criteria)
FilterItems(criteria) ==
    /\ call' = [op |-> "filterItems", criteria |-> criteria]
    /\ ret' = filterItems(enrichedItems, criteria)
    /\ UNCHANGED << parserVars, coreVars, appVars, requestVars >>

NextCore ==
    \/ \E includeDLC \in BOOLEAN : CrossReference(includeDLC)
    \/ \E criteria \in Criteria : FilterItems(criteria)

SpecCore == InitCore /\ [][NextCore]_vars

(***************************************************************************)
(* The application controller (EldenRingTracker) and the UI                *)
(***************************************************************************)

\* the keys of UI.elements
ElementKeys ==
    { "fileInput", "slotOptionsContainer", "slotSelector", "btnCalculate",
      "optionDLC", "loadingIndicator", "resultsSection", "characterName",
      "totalProgress", "itemsOwned", "itemsTotal", "regionsContainer",
      "filterStatus", "filterCategory", "filterAcquisition", "searchInput" }

\* the methods of UI
UIMethods ==
    { "setLoading", "showError", "populateSlotSelector", "updateGlobalStats",
      "renderRegions", "createRegionAccordion", "createItemCard",
      "getImageFallback", "normalizeItemName", "getTypeIcon", "showResults",
      "hideResults" }

\* the elements whose .checked handleCalculate reads, in the order it reads them
OptionKeys == << "optionDLC", "optionAlteredArmor", "optionUnobtainable" >>

\* this.ui.elements.<key>.checked throws a TypeError for a key that
\* UI.elements does not have (the wording of the message is the engine's)
OptionsThrow == \E i \in 1..Len(OptionKeys) : OptionKeys[i] \notin ElementKeys

UndefinedReadMessage == "Cannot read properties of undefined (reading 'checked')"

\* this.ui.<method>() throws a TypeError for a method UI does not have
NotAFunctionMessage(method) == "this.ui." \o method \o " is not a function"

\* the page before any interaction: the classes of the loading indicator, the
\* results section and the slot container are the page's, the selector has
\* no selectable option
NewUI ==
    ui \in [ loadingHidden : BOOLEAN, resultsHidden : BOOLEAN,
             slotOptionsHidden : BOOLEAN, slotNames : { << >> },
             globalStats : { << >> } ]

\* the saves to upload: one built around a synthetic slot, and another buffer
AppInputs ==
    { in \in Inputs : in.shape \in { GoodShape, DlcShape } /\ in.slot = 9
                       /\ in.other.len \in { 3, NoTerminatorFile.len } }

InitApp ==
    /\ \E in \in AppInputs :
          /\ input = [shape |-> in.shape, slot |-> in.slot]
          /\ files = << SynthFile(in.shape, in.slot), in.other >>
    /\ NewParser
    /\ NewLoader
    /\ NewCore
    /\ NewApp
    /\ NewUI
    /\ call = [op |-> "none"]
    /\ ret = Quiet

\* handleFileUpload, up to the await of the read.  k = 0: no file was chosen
HandleFileUpload(k) ==
    /\ k \notin reading
    /\ call' = [op |-> "handleFileUpload", k |-> k]
    /\ IF k = 0
       THEN /\ ret' = [alert |-> "No file selected", uncaught |-> ""]
            /\ UNCHANGED << ui, reading >>
       ELSE /\ ui' = [ui EXCEPT !.loadingHidden = FALSE]
            /\ reading' = reading \cup { k }
            /\ ret' = Quiet
    /\ UNCHANGED << parserVars, coreVars, app, requestVars >>

\* reader.onload: the rest of handleFileUpload
FileLoaded(k) ==
    LET result == getSlotNames(files[k]) IN
    /\ k \in reading
    /\ reading' = reading \ { k }
    /\ app' = [app EXCEPT !.currentFileData = k]
    /\ call' = [op |-> "handleFileUpload", k |-> k]
    /\ IF ~result.success
       THEN /\ ret' = [alert |-> result.error, uncaught |-> ""]
            /\ ui' = [ui EXCEPT !.loadingHidden = TRUE]
       ELSE /\ ret' = Quiet
            /\ ui' = [ui EXCEPT !.slotNames = result.names,
                                !.slotOptionsHidden = FALSE,
                                !.loadingHidden = TRUE]
    /\ UNCHANGED << parserVars, coreVars, requestVars >>

\* reader.onerror: the catch and the finally of handleFileUpload
FileReadFailed(k) ==
    /\ k \in reading
    /\ reading' = reading \ { k }
    /\ call' = [op |-> "handleFileUpload", k |-> k]
    /\ ret' = [alert |-> "Failed to read file", uncaught |-> ""]
    /\ ui' = [ui EXCEPT !.loadingHidden = TRUE]
    /\ UNCHANGED << parserVars, coreVars, app, requestVars >>

\* handleSlotSelection for the option of slot index: an option that is in the
\* selector and not disabled
HandleSlotSelection(index) ==
    /\ index + 1 \in 1..Len(ui.slotNames)
    /\ ui.slotNames[index + 1] # << >>
    /\ app' = [app EXCEPT !.currentSlot = index]
    /\ call' = [op |-> "handleSlotSelection", index |-> index]
    /\ ret' = IF "showOptions" \in UIMethods THEN Quiet
              ELSE [alert |-> "", uncaught |-> NotAFunctionMessage("showOptions")]
    /\ UNCHANGED << parserVars, coreVars, ui, reading, requestVars >>

\* displayResults(result): the page and the message of the error it throws
displayResults(page, result) ==
    LET shown == [page EXCEPT !.globalStats =
                      << result.percentage, result.owned, result.total >>]
    IN  IF "updateCategoryStats" \notin UIMethods
        THEN [ui |-> shown, error |-> NotAFunctionMessage("updateCategoryStats")]
        ELSE [ui |-> [shown EXCEPT !.resultsHidden = FALSE], error |-> ""]

\* the fields processSaveFile copies from a successful parse result
Parsed(parseResult) ==
    /\ inventoryIds' = parseResult.ids
    /\ characterName' = parseResult.characterName
    /\ isDlc' = parseResult.isDlc

\* the end of handleCalculate once processSaveFile has returned: the fields
\* it set, displayResults, and the finally
Displayed(page, parseResult, loaded, items, newStats) ==
    LET shown == displayResults(page, newStats) IN
    /\ ret' = [alert |-> shown.error, uncaught |-> ""]
    /\ ui' = [shown.ui EXCEPT !.loadingHidden = TRUE]
    /\ Parsed(parseResult)
    /\ cache' = loaded
    /\ enrichedItems' = items
    /\ stats' = newStats

\* processSaveFile from the parse result p on, as handleCalculate calls it;
\* base, dlc and collectibles are the outcomes of the requests the call makes
\* for what is not cached
Processed(p, includeDLC, base, dlc, collectibles) ==
    LET page == [ui EXCEPT !.resultsHidden = TRUE]
        load == loadIfMissing(cache, includeDLC, base, dlc, collectibles)
    IN  /\ fileData' = p.fileData
        /\ isDlcFile' = p.isDlcFile
        /\ UNCHANGED << input, files >>
        /\ IF ~p.ret.success
           THEN /\ ret' = [alert |-> p.ret.error, uncaught |-> ""]
                /\ ui' = [page EXCEPT !.loadingHidden = TRUE]
                /\ UNCHANGED coreVars
           ELSE IF load.errors # { }
           THEN /\ \E error \in load.errors : ret' = [alert |-> error, uncaught |-> ""]
                /\ ui' = [page EXCEPT !.loadingHidden = TRUE]
                /\ Parsed(p.ret)
                /\ cache' = load.cache
                /\ UNCHANGED << enrichedItems, stats >>
           ELSE \E items \in { crossReference(load.cache, p.ret.ids, includeDLC) } :
                    Displayed(page, p.ret, load.cache, items, calculateStats(items))

\* lines 113 to 125 of handleCalculate: processSaveFile and displayResults
ProcessAndDisplay(includeDLC, base, dlc, collectibles) ==
    Processed(parseInventory(files[app.currentFileData], app.currentSlot,
                             fileData, isDlcFile),
              includeDLC, base, dlc, collectibles)

\* handleCalculate.  Reading the options throws before the handler reaches
\* its first await, so the handler runs in one step
HandleCalculate ==
    /\ call' = [op |-> "handleCalculate"]
    /\ UNCHANGED << app, reading, requestVars >>
    /\ IF app.currentFileData = NoUpload \/ app.currentSlot = NullSlot
       THEN /\ ret' = [alert |-> "Please select a character slot first", uncaught |-> ""]
            /\ UNCHANGED << parserVars, coreVars, ui >>
       ELSE IF OptionsThrow
       THEN /\ ret' = [alert |-> UndefinedReadMessage, uncaught |-> ""]
            /\ ui' = [ui EXCEPT !.resultsHidden = TRUE, !.loadingHidden = TRUE]
            /\ UNCHANGED << parserVars, coreVars >>
       ELSE \E includeDLC \in BOOLEAN,
               base \in BaseCatalogs \cup { FetchFailed },
               dlc \in DlcCatalogs \cup { FetchFailed },
               collectibles \in { CollectiblesData, FetchFailed } :
                ProcessAndDisplay(includeDLC, base, dlc, collectibles)

NextApp ==
    \/ \E k \in 0..2 : HandleFileUpload(k)
    \/ \E k \in 1..2 : FileLoaded(k)
    \/ \E k \in 1..2 : FileReadFailed(k)
    \/ \E index \in 0..9 : HandleSlotSelection(index)
    \/ HandleCalculate

SpecApp == InitApp /\ [][NextApp]_vars

(***************************************************************************)
(* Properties of the parser                                                *)
(***************************************************************************)

\* the buffer of the last call
CallFile == files[call.k]

\* the first four bytes of f are 42 4E 44 34
StartsWithBND4(f) ==
    /\ f.len >= 4
    /\ << ByteAt(f, 0), ByteAt(f, 1), ByteAt(f, 2), ByteAt(f, 3) >> = << 66, 78, 68, 52 >>

InvalidFormat == [success |-> FALSE, error |-> "Invalid save file format"]

\* C1: a call of parseInventory or getSlotNames on a buffer whose first 4
\* bytes are not 'BND4' (shorter buffers included) returns exactly the failure
\* {success: false, error: 'Invalid save file format'}, with no names and no
\* ids, and leaves the parser's fileData and isDlcFile as they were.
C1_InvalidSignatureFails ==
    [][ (call'.op # "none" /\ ~StartsWithBND4(files'[call'.k]))
          => (ret' = InvalidFormat /\ fileData' = fileData /\ isDlcFile' = isDlcFile) ]_vars

\* a rejected buffer after an expansion-layout parse: both fields are kept
C1_Witness ==
    /\ call.op = "parseInventory"
    /\ ~StartsWithBND4(CallFile)
    /\ ret = InvalidFormat
    /\ fileData = files[1]
    /\ isDlcFile = TRUE

\* the identifier of a record: its first 4 bytes read as a little-endian
\* number, written as 8 upper-case hex digits
BigEndianHex(rec) ==
    Concat([ i \in 1..4 |-> << UpperHexDigits[(rec[5 - i] \div 16) + 1],
                               UpperHexDigits[(rec[5 - i] % 16) + 1] >> ])

\* the last call decoded the synthetic slot of files[1]
DecodedSynthSlot ==
    call.op = "parseInventory" /\ call.k = 1 /\ call.slotIndex = input.slot

\* C2: the slot made of a layout's marker, its skip bytes, N >= 1 records of
\* the layout's width and 50 zero bytes decodes to exactly N identifiers, the
\* i-th being the big-endian hex of the first 4 bytes of the i-th record.
C2_SyntheticSlotYieldsNIds ==
    DecodedSynthSlot =>
        /\ ret.success
        /\ Len(ret.ids) = Len(input.shape.recs)
        /\ \A i \in 1..Len(input.shape.recs) :
              ret.ids[i] = BigEndianHex(input.shape.recs[i])

C3Record == << \hEF, \hBE, \hAD, \hDE >> \o Repeat(0, 12)

\* C3: the slot B0 AD 01 00 01 FF FF FF, 8 padding bytes, the record
\* EF BE AD DE + 12 zero bytes and 50 zero bytes decodes to exactly
\* ["DEADBEEF"] with the Standard layout.
C3_DeadBeefScenario ==
    (DecodedSynthSlot /\ ~input.shape.dlc /\ input.shape.recs = << C3Record >>)
        => /\ ret.success
           /\ ret.ids = << << "D", "E", "A", "D", "B", "E", "E", "F" >> >>
           /\ ret.isDlc = FALSE
           /\ isDlcFile = FALSE

\* the scenario was decoded, with padding bytes FF
C3_Witness ==
    /\ DecodedSynthSlot /\ ~input.shape.dlc /\ input.shape.recs = << C3Record >>
    /\ input.shape.fill = \hFF
    /\ ret.success

\* the chunks the identifiers of the last successful parse were made from
CallChunks ==
    LET got == getInventory(getSlots(Uint8View(CallFile), call.slotIndex), FALSE)
    IN  splitIntoChunks(ArrayFrom(got.inv), IF got.isDlcFile THEN 8 ELSE 16)

\* C9: every identifier returned by a successful parseInventory has exactly 8
\* characters drawn from 0-9 and A-F and is the first 4 bytes of its chunk in
\* reversed order, each byte as 2 upper-case hex digits.
C9_IdsAreEightHexDigits ==
    (call.op = "parseInventory" /\ ret.success) =>
        \A i \in 1..Len(ret.ids) :
            /\ Len(ret.ids[i]) = 8
            /\ Range(ret.ids[i]) \subseteq Range(UpperHexDigits)
            /\ Len(CallChunks[i]) >= 4
            /\ ret.ids[i] = BigEndianHex(CallChunks[i])

(***************************************************************************)
(* Properties of the cross-reference, the statistics and the filter        *)
(***************************************************************************)

\* the ten rows of the category table: lower bound and category
CategoryTable ==
    << << << "0", "0", "F", "4", "2", "4", "0", "0" >>, "Weapons" >>,
       << << "1", "0", "0", "0", "0", "0", "0", "0" >>, "Armor" >>,
       << << "2", "0", "0", "0", "0", "0", "0", "0" >>, "Talismans" >>,
       << << "4", "0", "0", "0", "0", "0", "0", "0" >>, "Magic" >>,
       << << "8", "0", "0", "0", "0", "0", "0", "0" >>, "Ashes of War" >>,
       << << "9", "0", "0", "0", "0", "0", "0", "0" >>, "Spirit Ashes" >>,
       << << "4", "0", "0", "0", "0", "7", "F", "0" >>, "Bell Bearings" >>,
       << << "4", "0", "0", "0", "2", "4", "0", "0" >>, "Cookbooks" >>,
       << << "4", "0", "0", "0", "0", "B", "C", "0" >>, "Crystal Tears" >>,
       << << "4", "0", "0", "0", "0", "0", "0", "0" >>, "Key Items" >> >>

CategoryNames == { CategoryTable[r][2] : r \in 1..Len(CategoryTable) } \cup { "Other" }

\* C4: determineCategory gives every identifier, hex or not, one category
\* ('Other' when no range matches), and it gives the lower bound of each of
\* the ten rows of the category table the category of that row.
C4_LowerBoundsClassified ==
    \A i \in 1..Len(enrichedItems) :
        /\ determineCategory(enrichedItems[i].id) \in CategoryNames
        /\ \A r \in 1..Len(CategoryTable) :
              enrichedItems[i].id = CategoryTable[r][1]
                  => determineCategory(enrichedItems[i].id) = CategoryTable[r][2]

\* the catalog the last crossReference call enumerated
UsedCatalog == getMergedData(cache, call.includeDLC)

\* the identifiers listed in a catalog
SubregionIds(items) == { items[k][1] : k \in 1..Len(items) }
RegionIds(subregions) == UNION { SubregionIds(subregions[s][2]) : s \in 1..Len(subregions) }
CatalogIds(catalog) == UNION { RegionIds(catalog[r][2]) : r \in 1..Len(catalog) }

\* a catalog is non-empty when it lists at least one identifier
NonEmptyCatalog(catalog) == CatalogIds(catalog) # {}

\* the three granularities of a stats snapshot
StatsEntries(s) ==
    { [total |-> s.total, owned |-> s.owned, missing |-> s.missing,
       percentage |-> s.percentage] }
    \cup { s.categories[c] : c \in DOMAIN s.categories }
    \cup { s.regions[r] : r \in DOMAIN s.regions }

\* C5: cross-referencing an empty decoded list against a non-empty catalog
\* gives owned = false for every item, and owned = 0, missing = total and
\* percentage = 0 globally and in every category and region entry.
C5_EmptyListOwnsNothing ==
    (call.op = "crossReference" /\ inventoryIds = << >> /\ NonEmptyCatalog(UsedCatalog))
        => /\ Len(enrichedItems) >= 1
           /\ stats.total = Len(enrichedItems)
           /\ \A i \in 1..Len(enrichedItems) : enrichedItems[i].owned = FALSE
           /\ \A e \in StatsEntries(stats) :
                 e.owned = 0 /\ e.missing = e.total /\ e.percentage = 0

\* an empty list against a catalog of two regions
C5_Witness ==
    /\ call.op = "crossReference" /\ inventoryIds = << >>
    /\ Len(enrichedItems) >= 2
    /\ Cardinality(DOMAIN stats.regions) >= 2
    /\ stats.missing = Len(enrichedItems)

\* C6: cross-referencing a decoded list that contains every identifier of a
\* non-empty catalog gives owned = true for every item, and owned = total,
\* missing = 0 and percentage = 100 globally and in every category and
\* region entry.
C6_FullListOwnsAll ==
    (/\ call.op = "crossReference"
     /\ NonEmptyCatalog(UsedCatalog)
     /\ CatalogIds(UsedCatalog) \subseteq Range(inventoryIds))
        => /\ Len(enrichedItems) >= 1
           /\ stats.total = Len(enrichedItems)
           /\ \A i \in 1..Len(enrichedItems) : enrichedItems[i].owned = TRUE
           /\ \A e \in StatsEntries(stats) :
                 e.owned = e.total /\ e.missing = 0 /\ e.percentage = 100

\* a list with every identifier against the merged catalog
C6_Witness ==
    /\ call.op = "crossReference" /\ call.includeDLC /\ cache.dlcData # NoData
    /\ CatalogIds(UsedCatalog) \subseteq Range(inventoryIds)
    /\ Len(enrichedItems) >= 2
    /\ stats.owned = Len(enrichedItems)

\* criteria with its status replaced
WithStatus(criteria, status) ==
    [status |-> status] @@ [ f \in DOMAIN criteria \ { "status" } |-> criteria[f] ]

\* "whole" is "left" and "right" merged with the order of each kept
RECURSIVE IsInterleaving(_, _, _)
IsInterleaving(whole, left, right) ==
    IF whole = << >> THEN left = << >> /\ right = << >>
    ELSE \/ left # << >> /\ Head(left) = Head(whole)
            /\ IsInterleaving(Tail(whole), Tail(left), right)
         \/ right # << >> /\ Head(right) = Head(whole)
            /\ IsInterleaving(Tail(whole), left, Tail(right))

Occurrences(s, x) == Cardinality({ i \in 1..Len(s) : s[i] = x })

\* C7: for fixed other criteria, the results of status 'owned' and status
\* 'missing' partition the result of status 'all': every item of it is in
\* exactly one of the two, neither holds an item outside it, and merging the
\* two by position gives back the 'all' result in its order.
C7_OwnedMissingPartition ==
    (call.op = "filterItems") =>
        LET all == filterItems(enrichedItems, WithStatus(call.criteria, "all"))
            owned == filterItems(enrichedItems, WithStatus(call.criteria, "owned"))
            missing == filterItems(enrichedItems, WithStatus(call.criteria, "missing"))
        IN  /\ GivenWord(call.criteria, "status") /\ call.criteria.status = "all" => ret = all
            /\ GivenWord(call.criteria, "status") /\ call.criteria.status = "owned" => ret = owned
            /\ GivenWord(call.criteria, "status") /\ call.criteria.status = "missing" => ret = missing
            /\ \A i \in 1..Len(all) :
                  Occurrences(owned, all[i]) + Occurrences(missing, all[i]) = 1
            /\ Range(owned) \cup Range(missing) \subseteq Range(all)
            /\ IsInterleaving(all, owned, missing)

\* a 'missing' view, narrowed by a region, of a list with owned and missing items
C7_Witness ==
    /\ call.op = "filterItems"
    /\ GivenWord(call.criteria, "status") /\ call.criteria.status = "missing"
    /\ Given(call.criteria, "region")
    /\ ret # << >>
    /\ Len(ret) < Len(filterItems(enrichedItems, WithStatus(call.criteria, "all")))
    /\ Len(filterItems(enrichedItems, WithStatus(call.criteria, "all"))) < Len(enrichedItems)

\* a is a subsequence of b
RECURSIVE IsSubsequence(_, _)
IsSubsequence(a, b) ==
    IF a = << >> THEN TRUE
    ELSE IF b = << >> THEN FALSE
    ELSE IF Head(a) = Head(b) THEN IsSubsequence(Tail(a), Tail(b))
    ELSE IsSubsequence(a, Tail(b))

\* two characters that differ at most in case
SameLetter(a, b) ==
    \/ a = b
    \/ \E k \in 1..Len(UpperCase) : { a, b } = { UpperCase[k], LowerCase[k] }

\* text occurs in name, case ignored
OccursIgnoringCase(name, text) ==
    \E i \in 0..(Len(name) - Len(text)) :
        \A j \in 1..Len(text) : SameLetter(name[i + j], text[j])

Present(criteria, field) ==
    field \in DOMAIN criteria /\ criteria[field] \notin { << >>, Null }

\* item satisfies every criterion that is present
Satisfies(item, criteria) ==
    /\ ("status" \in DOMAIN criteria /\ criteria.status = "owned") => item.owned
    /\ ("status" \in DOMAIN criteria /\ criteria.status = "missing") => ~item.owned
    /\ Present(criteria, "region") => item.region = criteria.region
    /\ ("category" \in DOMAIN criteria /\ criteria.category # "")
          => determineCategory(item.id) = criteria.category
    /\ Present(criteria, "search") => OccursIgnoringCase(item.name, criteria.search)

\* C10: filterItems returns a subsequence of the enriched list, in the same
\* relative order, holding exactly the items that satisfy all the criteria
\* that are present (status, exact region, exact category as determineCategory
\* computes it, case-insensitive substring of the name); an absent or empty
\* criterion and status 'all' filter nothing; enrichedItems is not modified.
C10_FilterIsConjunctiveSubsequence ==
    [][ (call'.op = "filterItems") =>
          /\ enrichedItems' = enrichedItems
          /\ IsSubsequence(ret', enrichedItems)
          /\ \A i \in 1..Len(enrichedItems) :
                Occurrences(ret', enrichedItems[i])
                    = (IF Satisfies(enrichedItems[i], call'.criteria) THEN 1 ELSE 0) ]_vars

AllFourCriteria(criteria) ==
    /\ "status" \in DOMAIN criteria /\ criteria.status = "owned"
    /\ Present(criteria, "region")
    /\ "category" \in DOMAIN criteria /\ criteria.category # ""
    /\ Present(criteria, "search")

\* a call with all four criteria that keeps some items and drops others
C10_Witness ==
    /\ call.op = "filterItems"
    /\ AllFourCriteria(call.criteria)
    /\ ret # << >>
    /\ Len(ret) < Len(enrichedItems)

(***************************************************************************)
(* Properties of the application                                           *)
(***************************************************************************)

\* the held file is a valid save and the selected slot parses
HeldPairParses ==
    /\ app.currentFileData # NoUpload
    /\ app.currentSlot # NullSlot
    /\ parseInventory(files[app.currentFileData], app.currentSlot,
                      fileData, isDlcFile).ret.success

\* C8: once a valid save is uploaded and a slot selected, a click on the
\* calculate button whose parse succeeds ends with the global stats shown,
\* the results section shown, no error reported and the loading indicator
\* hidden.
C8_CalculateDisplaysResults ==
    (call.op = "handleCalculate" /\ HeldPairParses)
        => /\ ret = Quiet
           /\ ui.globalStats # << >>
           /\ ~ui.resultsHidden
           /\ ui.loadingHidden

(***************************************************************************)
(* Properties of the enumeration                                           *)
(***************************************************************************)

\* the (region, subregion, identifier) triples of a catalog in the order in
\* which the source data lists them
SubregionTriples(region, subregion, items) ==
    [ k \in 1..Len(items) |-> << region, subregion, items[k][1] >> ]

RegionTriples(region, subregions) ==
    Concat([ s \in 1..Len(subregions) |->
               SubregionTriples(region, subregions[s][1], subregions[s][2]) ])

CatalogTriples(catalog) ==
    Concat([ r \in 1..Len(catalog) |-> RegionTriples(catalog[r][1], catalog[r][2]) ])

EnrichedTriples(items) ==
    [ i \in 1..Len(items) |-> << items[i].region, items[i].subregion, items[i].id >> ]

\* C11: crossReference lists exactly one item per (region, subregion,
\* identifier) triple of the catalog handed to it, in the order in which the
\* source data lists regions, subregions and identifiers, also when an
\* identifier consists of decimal digits only.
C11_EnumeratesInInsertionOrder ==
    (call.op = "crossReference")
        => EnrichedTriples(enrichedItems) = CatalogTriples(UsedCatalog)

(***************************************************************************)
(* Properties of the layout choice                                         *)
(***************************************************************************)

\* the offsets of a slot at which every byte of marker is found
MarkerOffsets(slot, marker) ==
    { i \in ScanPositions(slot) :
        \A j \in 1..Len(marker) : ViewAt(slot, i + j - 1) = marker[j] }

\* the slot the last call looked at
CallSlot == getSlots(Uint8View(CallFile), call.slotIndex)

\* the last call was a parseInventory that came to getInventory
CameToGetInventory ==
    /\ call.op = "parseInventory"
    /\ StartsWithBND4(CallFile)
    /\ ret.success \/ ret.error = "Could not find inventory data in slot"

\* the identifiers are those of the records of width bytes from start on
DecodedFrom(slot, start, width) ==
    /\ ret.success
    /\ Len(ret.ids) >= 1
    /\ \A j \in 1..Len(ret.ids) :
          \/ Len(ret.ids[j]) # 8
          \/ ret.ids[j] = BigEndianHex([ b \in 1..4 |->
                              ViewAt(slot, start + (j - 1) * width + b - 1) ])

\* C12: getInventory chooses the layout once per slot.  When the standard
\* marker occurs in the slot the layout is Standard and the records start 16
\* bytes after its lowest offset, also when the expansion marker occurs at a
\* lower offset; when only the expansion marker occurs the layout is
\* Expansion and the records start 8 bytes after its lowest offset; when
\* neither occurs the slot has no inventory data.
C12_StandardMarkerFirst ==
    CameToGetInventory =>
        LET std == MarkerOffsets(CallSlot, PATTERN_NORMAL)
            exp == MarkerOffsets(CallSlot, PATTERN_DLC)
        IN  /\ std # {} =>
                 /\ isDlcFile = FALSE
                 /\ ret.success => (ret.isDlc = FALSE
                                    /\ DecodedFrom(CallSlot, SetMin(std) + 16, 16))
            /\ (std = {} /\ exp # {}) =>
                 /\ isDlcFile = TRUE
                 /\ ret.success => (ret.isDlc = TRUE
                                    /\ DecodedFrom(CallSlot, SetMin(exp) + 8, 8))
            /\ (std = {} /\ exp = {}) => ~ret.success

\* a slot decoded with the Standard layout although the expansion marker
\* occurs in it before the standard marker
C12_Witness ==
    /\ CameToGetInventory
    /\ ret.success
    /\ ret.isDlc = FALSE
    /\ MarkerOffsets(CallSlot, PATTERN_NORMAL) # {}
    /\ SetMin(MarkerOffsets(CallSlot, PATTERN_DLC))
          < SetMin(MarkerOffsets(CallSlot, PATTERN_NORMAL))

\* a slot with only the expansion marker
C12_WitnessExpansion ==
    /\ CameToGetInventory
    /\ ret.success
    /\ ret.isDlc = TRUE
    /\ MarkerOffsets(CallSlot, PATTERN_NORMAL) = {}

\* a slot with neither marker
C12_WitnessNeither ==
    /\ CameToGetInventory
    /\ ~ret.success
    /\ MarkerOffsets(CallSlot, PATTERN_DLC) = {}

(***************************************************************************)
(* Properties of the chunking                                              *)
(***************************************************************************)

\* the byte range getInventory located for the last call
CallRange == getInventory(CallSlot, FALSE).inv

\* C13: the decoder discards a final partial chunk: for a located range of L
\* bytes and chunk width W (16 standard, 8 expansion) a successful parse
\* returns floor(L / W) identifiers, none made from less than W bytes.
C13_PartialChunkDiscarded ==
    (call.op = "parseInventory" /\ ret.success) =>
        LET W == IF ret.isDlc THEN 8 ELSE 16 IN
        /\ Len(ret.ids) = CallRange.len \div W
        /\ \A i \in 1..Len(CallChunks) : Len(CallChunks[i]) = W

(***************************************************************************)
(* Properties of the ownership                                             *)
(***************************************************************************)

\* a decoded list with its entries reordered or duplicated
Rearranged(ids) ==
    { Reverse(ids), ids \o ids, ids \o Reverse(ids) }
    \cup { ids \o << ids[i] >> : i \in 1..Len(ids) }
    \cup { << ids[i] >> \o ids : i \in 1..Len(ids) }
    \cup (IF ids = << >> THEN { } ELSE { Tail(ids) \o << Head(ids) >> })

\* C14: an enriched item is owned exactly when its identifier occurs at least
\* once in the decoded list, so the enriched list and the statistics are the
\* same for a decoded list whose entries are duplicated or reordered.
C14_OwnershipIsPresence ==
    (call.op = "crossReference") =>
        /\ \A i \in 1..Len(enrichedItems) :
              enrichedItems[i].owned
                  <=> (\E j \in 1..Len(inventoryIds) : inventoryIds[j] = enrichedItems[i].id)
        /\ \A other \in Rearranged(inventoryIds) :
              /\ crossReference(cache, other, call.includeDLC) = enrichedItems
              /\ calculateStats(crossReference(cache, other, call.includeDLC)) = stats

\* a decoded list that repeats the identifier of an owned item, with another
\* item missing
C14_Witness ==
    /\ call.op = "crossReference"
    /\ \E i \in 1..Len(enrichedItems) :
          /\ enrichedItems[i].owned
          /\ Cardinality({ j \in 1..Len(inventoryIds) :
                             inventoryIds[j] = enrichedItems[i].id }) >= 2
    /\ \E i \in 1..Len(enrichedItems) : ~enrichedItems[i].owned

(***************************************************************************)
(* Properties of the statistics                                            *)
(***************************************************************************)

\* round(100 * owned / total), a half rounded up, and 0 when total is 0
RoundedPercent(owned, total) ==
    IF total = 0 THEN 0 ELSE (200 * owned + total) \div (2 * total)

\* the sum of f[x].field over the domain of f
RECURSIVE SumField(_, _, _)
SumField(f, keys, field) ==
    IF keys = {} THEN 0
    ELSE LET k == CHOOSE x \in keys : TRUE
         IN  f[k][field] + SumField(f, keys \ { k }, field)

\* C15: after a successful pass the stats agree with the enriched list at
\* all three granularities: in the global entry and in every category and
\* region entry total = owned + missing and percentage = round(100 * owned /
\* total) (0 when total = 0, within 0..100), and the totals and the owned
\* counts of the region entries, and of the category entries, sum to the
\* global ones.
C15_StatsConsistent ==
    (call.op = "crossReference") =>
        /\ stats.total = Len(enrichedItems)
        /\ \A e \in StatsEntries(stats) :
              /\ e.total = e.owned + e.missing
              /\ e.percentage = RoundedPercent(e.owned, e.total)
              /\ e.percentage \in 0..100
        /\ SumField(stats.regions, DOMAIN stats.regions, "total") = stats.total
        /\ SumField(stats.regions, DOMAIN stats.regions, "owned") = stats.owned
        /\ SumField(stats.categories, DOMAIN stats.categories, "total") = stats.total
        /\ SumField(stats.categories, DOMAIN stats.categories, "owned") = stats.owned

(***************************************************************************)
(* Short files, repeated calls and names                                   *)
(***************************************************************************)

\* C16: parseInventory never returns success for a file that starts with
\* 'BND4' and is shorter than the end of the last slot window (0x019003A0),
\* whatever the slot index.
C16_ShortFileNeverSucceeds ==
    (/\ call.op = "parseInventory"
     /\ StartsWithBND4(CallFile)
     /\ CallFile.len < SlotEnd[Len(SlotEnd)])
        => ~ret.success

\* C17: no state crosses calls of parseInventory: whatever calls were made
\* before on the same parser (other files, other slots, calls that failed
\* for a missing marker or a missing terminator), the object a call returns
\* is the one a freshly constructed parser returns for the same buffer and
\* slot index.
C17_NoStateCrossesCalls ==
    [][ (call'.op = "parseInventory")
          => ret' = parseInventory(files[call'.k], call'.slotIndex, NoFile, FALSE).ret ]_vars

\* a slot without a marker, read on a standard-layout save by a parser whose
\* flag was left set by a call on the other buffer
C17_Witness ==
    /\ call = [op |-> "parseInventory", k |-> 1, slotIndex |-> 1]
    /\ ret = [success |-> FALSE, error |-> "Could not find inventory data in slot"]
    /\ ~input.shape.dlc
    /\ isDlcFile
    /\ fileData = files[1]

\* the code units of the name window at an offset
WindowUnits(f, offset) == Uint16Units(BufferSlice(f, offset, offset + NameFieldLen))

\* units without its trailing null code units
RECURSIVE StripTrailingNulls(_)
StripTrailingNulls(units) ==
    IF units # << >> /\ units[Len(units)] = 0
    THEN StripTrailingNulls(SubSeq(units, 1, Len(units) - 1))
    ELSE units

\* C18: for each slot index the decoded character name is the text of the
\* double-byte code units of the 32-byte window at the slot's fixed offset,
\* one character per code unit (also for code units of 0x0100 and above),
\* with only the trailing null code units removed; so it is empty exactly
\* when the window holds no non-null code unit.
C18_NameIsWindowText ==
    /\ (call.op = "getSlotNames" /\ ret.success) =>
          \A k \in 1..Len(NameOffsets) :
              ret.names[k] = StripTrailingNulls(WindowUnits(CallFile, NameOffsets[k]))
    /\ (call.op = "parseInventory" /\ ret.success) =>
          ret.characterName
              = StripTrailingNulls(WindowUnits(CallFile, NameOffsets[call.slotIndex + 1]))

(***************************************************************************)
(* TrackerCore.processSaveFile on its own                                  *)
(***************************************************************************)

\* the saves handed to processSaveFile: a full-length save with its slot in
\* window 9, and a save that has no terminator or another full-length save
TrackerInputs ==
    { in \in Inputs : /\ in.shape \in { GoodShape, DlcShape }
                      /\ in.slot = 9
                      /\ in.other \in { NoTerminatorFile } \cup { f \in OddFiles : f.len = FullLen } }

\* what the server holds as data.json
TrackerBases == { BaseCatalog }

InitTracker ==
    /\ \E in \in TrackerInputs :
          /\ input = [shape |-> in.shape, slot |-> in.slot]
          /\ files = << SynthFile(in.shape, in.slot), in.other >>
    /\ NewParser
    /\ NewLoader
    /\ NewCore
    /\ NewApp
    /\ ui = NoPage
    /\ call = [op |-> "none"]
    /\ ret = [success |-> FALSE, thrown |-> ""]

\* steps 3 and 4 of processSaveFile and its return value
Passed(parseResult, loaded, items, newStats) ==
    /\ Parsed(parseResult)
    /\ cache' = loaded
    /\ enrichedItems' = items
    /\ stats' = newStats
    /\ ret' = [success |-> TRUE, items |-> items, stats |-> newStats,
               characterName |-> parseResult.characterName]

\* processSaveFile from the parse result p on: it throws the parser's error,
\* or copies the parsed fields and then throws the loader's error, or goes on
\* to the cross-reference and the statistics
AfterParse(p, includeDLC, base, dlc, collectibles) ==
    LET load == loadIfMissing(cache, includeDLC, base, dlc, collectibles) IN
    /\ fileData' = p.fileData
    /\ isDlcFile' = p.isDlcFile
    /\ UNCHANGED << input, files >>
    /\ IF ~p.ret.success
       THEN /\ ret' = [success |-> FALSE, thrown |-> p.ret.error]
            /\ UNCHANGED coreVars
       ELSE IF load.errors # { }
       THEN /\ \E error \in load.errors : ret' = [success |-> FALSE, thrown |-> error]
            /\ Parsed(p.ret)
            /\ cache' = load.cache
            /\ UNCHANGED << enrichedItems, stats >>
       ELSE \E items \in { crossReference(load.cache, p.ret.ids, includeDLC) } :
                Passed(p.ret, load.cache, items, calculateStats(items))

\* tracker.processSaveFile(files[k], slotIndex, {includeDLC}); base, dlc and
\* collectibles are the outcomes of the requests the call makes for what is
\* not cached
ProcessSaveFile(k, slotIndex, includeDLC, base, dlc, collectibles) ==
    /\ call' = [op |-> "processSaveFile", k |-> k, slotIndex |-> slotIndex,
                includeDLC |-> includeDLC]
    /\ UNCHANGED << appVars, requestVars >>
    /\ AfterParse(parseInventory(files[k], slotIndex, fileData, isDlcFile),
                  includeDLC, base, dlc, collectibles)

NextTracker ==
    \E k \in 1..2, slotIndex \in { 0, 9 }, includeDLC \in BOOLEAN,
       base \in TrackerBases \cup { FetchFailed },
       dlc \in DlcCatalogs \cup { FetchFailed },
       collectibles \in { CollectiblesData, FetchFailed } :
        ProcessSaveFile(k, slotIndex, includeDLC, base, dlc, collectibles)

SpecTracker == InitTracker /\ [][NextTracker]_vars

(***************************************************************************)
(* Properties of processSaveFile                                           *)
(***************************************************************************)

\* C19: whenever processSaveFile succeeds with includeDLC = true, the
\* enriched list holds the entries of the expansion data, whatever calls
\* were made before on the same tracker: a pass without the expansion, or a
\* pass whose request for the expansion data failed after the base data was
\* cached.
C19_ExpansionIncluded ==
    (call.op = "processSaveFile" /\ ret.success /\ call.includeDLC) =>
        \A expansion \in DlcCatalogs :
            Range(CatalogTriples(expansion)) \subseteq Range(EnrichedTriples(enrichedItems))

\* C20: a processSaveFile call that fails, for the parse or for the load,
\* leaves inventoryIds, characterName, isDlc, enrichedItems and stats as they
\* were.
C20_FailureChangesNothing ==
    [][ (call'.op = "processSaveFile" /\ ~ret'.success)
          => /\ inventoryIds' = inventoryIds
             /\ characterName' = characterName
             /\ isDlc' = isDlc
             /\ enrichedItems' = enrichedItems
             /\ stats' = stats ]_vars

(***************************************************************************)
(* Properties of the upload and the slot choice                            *)
(***************************************************************************)

\* handleFileUpload has read file call.k and stored it as currentFileData
Uploaded ==
    /\ call.op = "handleFileUpload"
    /\ call.k # 0
    /\ call.k \notin reading
    /\ ret.alert # "Failed to read file"
    /\ app.currentFileData = call.k

\* C21: handleCalculate only processes a slot that was selected after the
\* file held now was uploaded: after an upload, valid or invalid, a calculate
\* click is rejected with 'Please select a character slot first' until a
\* slot is selected again.  Stated for the click that follows the upload.
C21_UploadResetsSlot ==
    [][ (Uploaded /\ call'.op = "handleCalculate")
          => ret'.alert = "Please select a character slot first" ]_vars

(***************************************************************************)
(* DataLoader.fetchJSON, request by request.  promises[i] is the promise   *)
(* stored by the i-th call that sent a request: its URL, its state, and    *)
(* whether its request is still in flight.  The promise an async call      *)
(* returns follows the stored one; ret.promise is the stored one.          *)
(***************************************************************************)

MaxRequests == 3

InitLoader ==
    /\ input = NoInput
    /\ files = << NoFile, NoFile >>
    /\ NewParser
    /\ NewLoader
    /\ NewCore
    /\ NewApp
    /\ ui = NoPage
    /\ call = [op |-> "none"]
    /\ ret = [promise |-> NoPromise]

\* fetchJSON(url): the stored promise if there is one, else a request is
\* sent and its promise stored
FetchJSON(url) ==
    /\ call' = [op |-> "fetchJSON", url |-> url]
    /\ IF loadingPromises[url] # NoPromise
       THEN /\ ret' = [promise |-> loadingPromises[url]]
            /\ UNCHANGED requestVars
       ELSE /\ Len(promises) < MaxRequests
            /\ promises' = Append(promises, [url |-> url, state |-> "pending", xhr |-> "sent"])
            /\ loadingPromises' = [loadingPromises EXCEPT ![url] = Len(promises) + 1]
            /\ ret' = [promise |-> Len(promises) + 1]
    /\ UNCHANGED << parserVars, coreVars, appVars >>

\* xhr.onload with status 200 or 0 and a response: resolve(data)
XhrLoaded(i) ==
    /\ promises[i].xhr = "sent"
    /\ promises' = [promises EXCEPT ![i] = [@ EXCEPT !.state = "fulfilled", !.xhr = "done"]]
    /\ call' = [op |-> "onload", promise |-> i]
    /\ UNCHANGED << parserVars, coreVars, appVars, loadingPromises, ret >>

\* a failed request whose catch handler leaves the entry in place
XhrFailed_keepsEntry(i) ==
    /\ promises[i].xhr = "sent"
    /\ promises' = [promises EXCEPT ![i] = [@ EXCEPT !.state = "rejected", !.xhr = "done"]]
    /\ call' = [op |-> "onerror", promise |-> i]
    /\ UNCHANGED << parserVars, coreVars, appVars, loadingPromises, ret >>

\* xhr.onerror, or xhr.onload with another status: reject(error), and the
\* catch handler deletes the entry of the URL before any caller goes on
XhrFailed(i) ==
    /\ promises[i].xhr = "sent"
    /\ promises' = [promises EXCEPT ![i] = [@ EXCEPT !.state = "rejected", !.xhr = "done"]]
    /\ loadingPromises' = [loadingPromises EXCEPT ![promises[i].url] = NoPromise]
    /\ call' = [op |-> "onerror", promise |-> i]
    /\ UNCHANGED << parserVars, coreVars, appVars, ret >>

\* xhr.onload with status 200 or 0 and no response (a body that is not JSON,
\* or the JSON null, false, 0 or ""): reading xhr.responseText of a request
\* of type 'json' throws inside the handler, and the promise stays pending
XhrUnreadable(i) ==
    /\ promises[i].xhr = "sent"
    /\ promises' = [promises EXCEPT ![i] = [@ EXCEPT !.xhr = "done"]]
    /\ call' = [op |-> "onload", promise |-> i]
    /\ UNCHANGED << parserVars, coreVars, appVars, loadingPromises, ret >>

NextLoader ==
    \/ \E url \in Urls : FetchJSON(url)
    \/ \E i \in 1..Len(promises) : XhrLoaded(i)
    \/ \E i \in 1..Len(promises) : XhrFailed(i)
    \/ \E i \in 1..Len(promises) : XhrUnreadable(i)

SpecLoader == InitLoader /\ [][NextLoader]_vars

(***************************************************************************)
(* Properties of fetchJSON                                                 *)
(***************************************************************************)

\* the promises created for a URL, and the latest of them
PromisesOf(url) == { i \in 1..Len(promises) : promises[i].url = url }

Latest(url) == CHOOSE i \in PromisesOf(url) : \A j \in PromisesOf(url) : j <= i

\* the requests for a URL that are in flight
InFlight(url) == { i \in PromisesOf(url) : promises[i].xhr = "sent" }

\* C22: for any interleaving of fetchJSON calls and request outcomes, a call
\* for a URL whose request is in flight or has succeeded returns that
\* request's promise and sends no request, so that at most one request per
\* URL is in flight at any time; a request that fails has its entry of
\* loadingPromises removed, and the next call for its URL sends a new request
\* and returns the new promise, not the rejected one.
C22_OneRequestPerUrl ==
    [][ /\ \A url \in Urls : Cardinality(InFlight(url)') <= 1
        /\ \A i \in 1..Len(promises) :
              (promises[i].state = "pending" /\ promises'[i].state = "rejected")
                  => loadingPromises'[promises[i].url] = NoPromise
        /\ (call'.op = "fetchJSON" /\ PromisesOf(call'.url) # { }) =>
              LET last == Latest(call'.url) IN
              /\ (promises[last].xhr = "sent" \/ promises[last].state = "fulfilled")
                    => (ret'.promise = last /\ promises' = promises)
              /\ (promises[last].state = "rejected")
                    => /\ Len(promises') = Len(promises) + 1
                       /\ ret'.promise = Len(promises')
                       /\ promises'[ret'.promise]
                             = [url |-> call'.url, state |-> "pending", xhr |-> "sent"] ]_vars

\* a call that follows a failed request for its URL has sent a new request
\* and returned its pending promise, while a request for another URL is in
\* flight
C22_Witness ==
    /\ call.op = "fetchJSON"
    /\ \E i \in PromisesOf(call.url) : promises[i].state = "rejected"
    /\ ret.promise = Latest(call.url)
    /\ promises[ret.promise].xhr = "sent"
    /\ \E url \in Urls \ { call.url } : InFlight(url) # { }

====
